---------------------------- MODULE Spec2Model ----------------------------
(***************************************************************************)
(* Weather cache / fetch coordinator and the derived queries of the        *)
(* Tambopata -> Dresden dashboard (services/weatherService.js).            *)
(*                                                                         *)
(* Time is counted in whole minutes.  JavaScript runs one task at a time   *)
(* and drains the microtask queue before the next task, so one action of   *)
(* the model is one task (a call from a timer or effect, the arrival of    *)
(* one HTTP response, the passing of a minute) together with all the       *)
(* promise reactions it queues.                                            *)
(***************************************************************************)
EXTENDS Integers, Sequences, FiniteSets, TLC

VARIABLES now, cache, batches, callers, q

vars == <<now, cache, batches, callers, q>>

(***************************************************************************)
(* Bounds of the model.                                                    *)
(***************************************************************************)
MaxNow == 16
MaxBatches == 2
NCallers == 2
Quantum == 5
MaxQNow == 3
MidnightAt == 10
MaxTMinutes == 122
MountMinute == 57
MaxGNow == 180
MaxPDays == 2
MaxLNow == 3
\* minutes that pass in a run of the sun queries
MaxSMinutes == 16

(***************************************************************************)
(* Program constants.                                                      *)
(***************************************************************************)
\* cache.CACHE_DURATION, 15 * 60 * 1000 ms, in minutes
CACHE_DURATION == 15

\* ../config.js: the fixed list of two named points
LOCATIONS ==
    << [name |-> "Tambopata", latitude |-> -13, longitude |-> -69],
       [name |-> "Dresden",   latitude |-> 51,  longitude |-> 14] >>

NLoc == Len(LOCATIONS)

\* a name that is not configured
UnknownName == "Atlantis"

LocationNames == {LOCATIONS[i].name : i \in 1..NLoc} \cup {UnknownName}

(***************************************************************************)
(* JavaScript values.                                                      *)
(***************************************************************************)
Num(n) == [t |-> "num", n |-> n, s |-> ""]
Str(s) == [t |-> "str", n |-> 0, s |-> s]
Undef == [t |-> "undefined", n |-> 0, s |-> ""]
\* luxon Duration.toFormat('h:mm'): hours and minutes of the duration
HMM(h, m) == [t |-> "h:mm", n |-> h * 100 + m, s |-> ""]

\* an array property of the payload: def = FALSE is a missing property
Arr(seq) == [def |-> TRUE, v |-> seq]
NoArr == [def |-> FALSE, v |-> <<>>]

\* arr[i] with JavaScript's 0-based index: undefined when out of range
At(arr, i) ==
    IF i + 1 \in 1..Len(arr.v) THEN Num(arr.v[i + 1]) ELSE Undef

(***************************************************************************)
(* The forecast payload (the JSON body of the forecast endpoint).          *)
(* Timestamps are minutes on the location's local time line.               *)
(***************************************************************************)
Daily(sr, ss, pp) ==
    [def |-> TRUE, sunrise |-> sr, sunset |-> ss,
     precipitation_probability_max |-> pp]
NoDaily ==
    [def |-> FALSE, sunrise |-> NoArr, sunset |-> NoArr,
     precipitation_probability_max |-> NoArr]

Hourly(tm, te, ap, wc, pr) ==
    [def |-> TRUE, time |-> tm, temperature_2m |-> te,
     apparent_temperature |-> ap, weathercode |-> wc, precipitation |-> pr]
NoHourly ==
    [def |-> FALSE, time |-> NoArr, temperature_2m |-> NoArr,
     apparent_temperature |-> NoArr, weathercode |-> NoArr,
     precipitation |-> NoArr]

Weather(d, h) == [def |-> TRUE, daily |-> d, hourly |-> h]
NoWeather == [def |-> FALSE, daily |-> NoDaily, hourly |-> NoHourly]

\* a well-formed two-day forecast; temperatures in tenths of a degree
GoodDaily == Daily(Arr(<<6, 30>>), Arr(<<12, 36>>), Arr(<<40, 70>>))
GoodHourly ==
    Hourly(Arr(<<0, 10, 20>>), Arr(<<214, 226, 195>>), Arr(<<206, 226, 201>>),
           Arr(<<0, 3, 61>>), Arr(<<0, 0, 4>>))
GoodWeather == Weather(GoodDaily, GoodHourly)

\* the body of an error response: { error: true, reason: ... }
ErrorBody == Weather(NoDaily, NoHourly)

(***************************************************************************)
(* luxon.                                                                  *)
(***************************************************************************)
\* DateTime.fromISO(text, {zone}): an invalid DateTime for undefined
fromISO(x) ==
    IF x.t = "num" THEN [valid |-> TRUE, ts |-> x.n]
    ELSE [valid |-> FALSE, ts |-> 0]

\* DateTime.now().setZone(zone)
DateTimeNow(t) == [valid |-> TRUE, ts |-> t]

\* a comparison that also takes the equal instants
LtInclusive(a, b) == a.valid /\ b.valid /\ a.ts <= b.ts

\* a < b on DateTimes compares valueOf(), NaN for an invalid DateTime
Lt(a, b) == a.valid /\ b.valid /\ a.ts < b.ts
Le(a, b) == a.valid /\ b.valid /\ a.ts <= b.ts

\* the difference taken the other way round: b.diff(a)
DiffFormatSwapped(a, b) ==
    IF ~(a.valid /\ b.valid) THEN Str("Invalid Duration")
    ELSE LET d == b.ts - a.ts
         IN  IF d >= 0 THEN HMM(d \div 60, d % 60)
             ELSE HMM(0 - ((0 - d) \div 60), 0 - ((0 - d) % 60))

\* a.diff(b).toFormat('h:mm')
DiffFormat(a, b) ==
    IF ~(a.valid /\ b.valid) THEN Str("Invalid Duration")
    ELSE LET d == a.ts - b.ts
         IN  IF d >= 0 THEN HMM(d \div 60, d % 60)
             ELSE HMM(0 - ((0 - d) \div 60), 0 - ((0 - d) % 60))

\* Math.round on tenths: the nearest integer, halves towards +infinity
MathRound(x) == (x + 5) \div 10

(***************************************************************************)
(* Derived queries: what each one computes from the record set that        *)
(* getSharedWeatherData resolved with, the location name and the current   *)
(* local time t.  out = "throw" is an exception that leaves the function   *)
(* (the returned promise rejects).                                         *)
(***************************************************************************)
\* find with a fallback to the first record instead of undefined
FindOrFirst(all, name) ==
    IF \E i \in 1..Len(all) : all[i].name = name
    THEN CHOOSE i \in 1..Len(all) :
            /\ all[i].name = name
            /\ \A j \in 1..(i - 1) : all[j].name # name
    ELSE 1

\* allWeatherData.find(loc => loc.name === locationName): 0 is undefined
Find(all, name) ==
    IF \E i \in 1..Len(all) : all[i].name = name
    THEN CHOOSE i \in 1..Len(all) :
            /\ all[i].name = name
            /\ \A j \in 1..(i - 1) : all[j].name # name
    ELSE 0

SunResult(icon, time) == [out |-> "return", icon |-> icon, time |-> time]
SunSentinel == SunResult("question", Str("--:--"))
SunThrow == [out |-> "throw", icon |-> "", time |-> Undef]

getNextSunEventForLocation(all, locationName, t) ==
    LET i == Find(all, locationName)
    IN  IF i = 0 \/ ~all[i].weather.def THEN SunSentinel
        ELSE
          LET weather == all[i].weather
          IN  IF ~weather.daily.def \/ ~weather.daily.sunrise.def
                 \/ ~weather.daily.sunset.def
              THEN SunThrow    \* TypeError: reading a property of undefined
              ELSE
                LET nowInLocation == DateTimeNow(t)
                    sunriseToday == fromISO(At(weather.daily.sunrise, 0))
                    sunsetToday == fromISO(At(weather.daily.sunset, 0))
                    sunriseTomorrow == fromISO(At(weather.daily.sunrise, 1))
                IN  IF Lt(nowInLocation, sunriseToday)
                    THEN SunResult("sunrise_today",
                                   DiffFormat(sunriseToday, nowInLocation))
                    ELSE IF Lt(nowInLocation, sunsetToday)
                    THEN SunResult("moon",
                                   DiffFormat(sunsetToday, nowInLocation))
                    ELSE SunResult("sunrise",
                                   DiffFormat(sunriseTomorrow, nowInLocation))

\* weatherCode is a JavaScript value; every comparison with undefined fails
getWeatherIcon(weatherCode, isDay) ==
    IF weatherCode.t # "num" THEN "question"
    ELSE LET c == weatherCode.n
         IN  IF c = 0 THEN (IF isDay THEN "sun" ELSE "moon")
             ELSE IF c >= 1 /\ c <= 3 THEN "cloud"
             ELSE IF c >= 45 /\ c <= 48 THEN "fog"
             ELSE IF c >= 51 /\ c <= 57 THEN "drizzle"
             ELSE IF c >= 61 /\ c <= 67 THEN "rain"
             ELSE IF c >= 71 /\ c <= 77 THEN "snow"
             ELSE IF c >= 80 /\ c <= 82 THEN "rain_showers"
             ELSE IF c >= 85 /\ c <= 86 THEN "snow_showers"
             ELSE IF c = 95 THEN "thunderstorm"
             ELSE IF c >= 96 /\ c <= 99 THEN "thunderstorm"
             ELSE "question"

CurrentResult(temperature, icon, precipitation) ==
    [out |-> "return", temperature |-> temperature, icon |-> icon,
     precipitation |-> precipitation]
CurrentSentinel == CurrentResult(Str("N/A"), "question", Str("N/A"))

\* a scan that only takes the samples strictly before now
CurrentIndexStrict(times, nowInLocation) ==
    LET hit == {i \in 1..Len(times.v) :
                   Lt(fromISO(At(times, i - 1)), nowInLocation)}
    IN  IF hit = {} THEN -1
        ELSE (CHOOSE i \in hit : \A j \in hit : j <= i) - 1

\* the greatest index (0-based) whose sample is <= now, -1 when there is none
CurrentIndex(times, nowInLocation) ==
    LET hit == {i \in 1..Len(times.v) :
                   Le(fromISO(At(times, i - 1)), nowInLocation)}
    IN  IF hit = {} THEN -1
        ELSE (CHOOSE i \in hit : \A j \in hit : j <= i) - 1

\* `${Math.round(temperature)}°C${diffStr ? ` (${diffStr}°C)` : ''}`
TemperatureText(temperature, apparentTemperature) ==
    IF temperature.t # "num" THEN Str("NaNC (NaNC)")
    ELSE IF apparentTemperature.t # "num"
    THEN Str(ToString(MathRound(temperature.n)) \o "C (NaNC)")
    ELSE
      LET diff == MathRound(apparentTemperature.n) - MathRound(temperature.n)
          diffStr == IF diff = 0 THEN ""
                     ELSE IF diff > 0 THEN "+" \o ToString(diff)
                     ELSE ToString(diff)
      IN  Str(ToString(MathRound(temperature.n)) \o "C"
              \o (IF diffStr # "" THEN " (" \o diffStr \o "C)" ELSE ""))

getCurrentWeatherForLocation(all, locationName, t) ==
    LET i == Find(all, locationName)
    IN  IF i = 0 \/ ~all[i].weather.def THEN CurrentSentinel
        ELSE
          LET weather == all[i].weather
              hourly == weather.hourly
          IN  \* every TypeError inside the try block ends in the catch
              IF ~weather.daily.def \/ ~weather.daily.sunrise.def
                 \/ ~weather.daily.sunset.def
                 \/ ~hourly.def \/ ~hourly.time.def
              THEN CurrentSentinel
              ELSE
                LET nowInLocation == DateTimeNow(t)
                    sunriseToday == fromISO(At(weather.daily.sunrise, 0))
                    sunsetToday == fromISO(At(weather.daily.sunset, 0))
                    isDay == Lt(sunriseToday, nowInLocation)
                             /\ Lt(nowInLocation, sunsetToday)
                    currentIndex == CurrentIndex(hourly.time, nowInLocation)
                IN  IF currentIndex = -1 THEN CurrentSentinel
                    ELSE IF ~hourly.temperature_2m.def
                            \/ ~hourly.weathercode.def
                            \/ ~hourly.precipitation.def
                            \/ ~hourly.apparent_temperature.def
                    THEN CurrentSentinel
                    ELSE CurrentResult(
                           TemperatureText(
                             At(hourly.temperature_2m, currentIndex),
                             At(hourly.apparent_temperature, currentIndex)),
                           getWeatherIcon(At(hourly.weathercode, currentIndex),
                                          isDay),
                           At(hourly.precipitation, currentIndex))

PrecipitationResult(p) ==
    [out |-> "return", maxPrecipitationProbability |-> p, unit |-> "%"]
PrecipitationSentinel == PrecipitationResult(Str("N/A"))

DerivedQueries == {"getNextSunEventForLocation",
                   "getCurrentWeatherForLocation",
                   "getTodayPrecipitationProbability"}

\* the 'unavailable' value of each derived query
Sentinel(fn) ==
    CASE fn = "getNextSunEventForLocation" -> SunSentinel
      [] fn = "getCurrentWeatherForLocation" -> CurrentSentinel
      [] fn = "getTodayPrecipitationProbability" -> PrecipitationSentinel

getTodayPrecipitationProbability(all, locationName) ==
    LET i == Find(all, locationName)
    IN  IF i = 0 \/ ~all[i].weather.def \/ ~all[i].weather.daily.def
        THEN PrecipitationSentinel
        ELSE
          LET weather == all[i].weather
          IN  IF ~weather.daily.precipitation_probability_max.def
              THEN PrecipitationSentinel    \* TypeError, caught
              ELSE PrecipitationResult(
                     At(weather.daily.precipitation_probability_max, 0))

(***************************************************************************)
(* The HTTP transport: what one request of a batch can end with.           *)
(***************************************************************************)
NetworkError == [arrived |-> FALSE, ok |-> FALSE, parses |-> FALSE,
                 body |-> NoWeather]
Http200 == [arrived |-> TRUE, ok |-> TRUE, parses |-> TRUE,
            body |-> GoodWeather]
HttpError == [arrived |-> TRUE, ok |-> FALSE, parses |-> TRUE,
              body |-> ErrorBody]
BadJson == [arrived |-> TRUE, ok |-> TRUE, parses |-> FALSE,
            body |-> NoWeather]

Responses == {NetworkError, Http200, HttpError, BadJson}

\* {...location, weather: data}; batch is a history field (the batch that
\* produced the record), not a field of the program
Record(location, data, b) ==
    [name |-> location.name, latitude |-> location.latitude,
     longitude |-> location.longitude, weather |-> data, batch |-> b]
NoRecord == Record([name |-> "", latitude |-> 0, longitude |-> 0],
                   NoWeather, 0)

Pending == [st |-> "pending", value |-> NoRecord, why |-> "none"]
Fulfilled(v) == [st |-> "fulfilled", value |-> v, why |-> "ok"]
Rejected(why) == [st |-> "rejected", value |-> NoRecord, why |-> why]

\* the chain without the res.ok test: .then(res => res.json())
RequestChainNoOkCheck(location, resp, b) ==
    IF ~resp.arrived THEN Rejected("network")
    ELSE IF ~resp.parses THEN Rejected("json")
    ELSE Fulfilled(Record(location, resp.body, b))

\* fetch(url).then(res => { if (!res.ok) throw ...; return res.json(); })
\*           .then(data => ({...location, weather: data}))
RequestChain(location, resp, b) ==
    IF ~resp.arrived THEN Rejected("network")
    ELSE IF ~resp.ok THEN Rejected("status")
    ELSE IF ~resp.parses THEN Rejected("json")
    ELSE Fulfilled(Record(location, resp.body, b))

\* Promise.allSettled followed by keeping the fulfilled values
PromiseAllSettled(req) ==
    IF \E i \in 1..NLoc : req[i].st = "pending"
    THEN [st |-> "pending", value |-> <<>>]
    ELSE [st |-> "fulfilled",
          value |-> LET ok == SelectSeq([i \in 1..NLoc |-> req[i]],
                                         LAMBDA r : r.st = "fulfilled")
                    IN  [i \in 1..Len(ok) |-> ok[i].value]]

\* Promise.all(fetchPromises): rejects with the first rejection, fulfils
\* with every value, in the order of LOCATIONS, once all have fulfilled
PromiseAll(req) ==
    IF \E i \in 1..NLoc : req[i].st = "rejected"
    THEN [st |-> "rejected", value |-> <<>>]
    ELSE IF \A i \in 1..NLoc : req[i].st = "fulfilled"
    THEN [st |-> "fulfilled", value |-> [i \in 1..NLoc |-> req[i].value]]
    ELSE [st |-> "pending", value |-> <<>>]

(***************************************************************************)
(* The cache and getSharedWeatherData.                                     *)
(***************************************************************************)
Null == [null |-> TRUE, v |-> <<>>]
Data(v) == [null |-> FALSE, v |-> v]

\* a test that takes any cached data for fresh
IsFreshAlways(c, t) == ~c.data.null

\* the freshness test with <= in place of <
IsFreshInclusive(c, t) == ~c.data.null /\ t - c.timestamp <= CACHE_DURATION

\* cache.data && (now - cache.timestamp < cache.CACHE_DURATION)
IsFresh(c, t) == ~c.data.null /\ t - c.timestamp < CACHE_DURATION

\* a call that never looks at the in-flight marker
JoinsInFlightNever(c) == FALSE

\* if (cache.fetchPromise) return cache.fetchPromise; 0 is null
JoinsInFlight(c) == c.fetchPromise # 0

\* an async function without the finally block
FinallyKeepsMarker(c) == c

\* a finally block that also touches the timestamp
FinallyTouchesTimestamp(c) ==
    [c EXCEPT !.fetchPromise = 0, !.timestamp = @ + 1]

\* finally { cache.fetchPromise = null; }
Finally(c) == [c EXCEPT !.fetchPromise = 0]

\* a store that leaves the timestamp as it was
StoreKeepsTimestamp(c, results, t) == [c EXCEPT !.data = Data(results)]

\* cache.data = results; cache.timestamp = Date.now();
Store(c, results, t) == [c EXCEPT !.data = Data(results), !.timestamp = t]

\* a batch: the async function stored in cache.fetchPromise.  status is the
\* state of that promise and why the reason of its rejection; req are the
\* per-location request chains while Promise.all is pending.  non2xx is a
\* history field: the server answered a request of the batch with a
\* status outside 200..299
NewBatch == [status |-> "pending", why |-> "none", non2xx |-> FALSE,
             req |-> [i \in 1..NLoc |-> Pending]]

NoResult == [out |-> "none"]
\* tick is a history field of the runs of the hook functions: the time at
\* which the tick of the run fired
Idle == [st |-> "idle", fn |-> "", arg |-> "", batch |-> 0,
         out |-> "none", data |-> Null, res |-> NoResult, tick |-> 0]

\* the names the page passes to its hooks: ['Tambopata', 'Dresden']
locations == [i \in 1..NLoc |-> LOCATIONS[i].name]

\* Promise.all over the queries of one kind: it rejects when one rejects
AllReturn(results) == \A i \in 1..Len(results) : results[i].out = "return"

\* the try block of fetchSunData once the record set has arrived, up to
\* `await Promise.all(sunPromises)`
SunData(all, t) ==
    LET sunResults == [i \in 1..NLoc |->
                          getNextSunEventForLocation(all, locations[i], t)]
    IN  [out |-> IF AllReturn(sunResults) THEN "return" ELSE "throw",
         sunResults |-> sunResults]

\* the try block of fetchHourlyData once the record set has arrived, up to
\* `await Promise.all([Promise.all(...), Promise.all(...)])`
HourlyData(all, t) ==
    LET weatherResults == [i \in 1..NLoc |->
                              getCurrentWeatherForLocation(all, locations[i], t)]
        precipResults == [i \in 1..NLoc |->
                             getTodayPrecipitationProbability(all, locations[i])]
    IN  [out |-> IF AllReturn(weatherResults) /\ AllReturn(precipResults)
                 THEN "return" ELSE "throw",
         weatherResults |-> weatherResults,
         precipResults |-> precipResults]

HookFunctions == {"fetchSunData", "fetchHourlyData"}

\* the continuation of a call after `await getSharedWeatherData()` has
\* resolved with data: the body of the query, run at time t
Resume(caller, data, t) ==
    LET res == CASE caller.fn = "getNextSunEventForLocation" ->
                      getNextSunEventForLocation(data.v, caller.arg, t)
                 [] caller.fn = "getCurrentWeatherForLocation" ->
                      getCurrentWeatherForLocation(data.v, caller.arg, t)
                 [] caller.fn = "getTodayPrecipitationProbability" ->
                      getTodayPrecipitationProbability(data.v, caller.arg)
                 [] caller.fn = "fetchSunData" -> SunData(data.v, t)
                 [] caller.fn = "fetchHourlyData" -> HourlyData(data.v, t)
                 [] OTHER -> [out |-> "return"]
    IN  [caller EXCEPT !.st = "done", !.data = data, !.res = res,
                       !.out = IF res.out = "throw" THEN "rejected"
                               ELSE "resolved"]

\* a call that falls back to whatever the cache holds when the fetch fails
RejectWithStale(caller) ==
    [caller EXCEPT !.st = "done", !.data = cache.data, !.out = "resolved",
                   !.res = [out |-> "return"]]

\* a derived query that catches the rejection and returns its sentinel
RejectToSentinel(caller) ==
    [caller EXCEPT !.st = "done", !.data = Null,
                   !.out = IF caller.fn \in DerivedQueries THEN "resolved"
                           ELSE "rejected",
                   !.res = IF caller.fn \in DerivedQueries
                           THEN Sentinel(caller.fn)
                           ELSE [out |-> "throw"]]

\* a call that is left pending when the awaited promise rejects
RejectNever(caller) == caller

\* the call after the awaited promise has rejected: no function catches the
\* rejection of getSharedWeatherData, so the call rejects with it
Reject(caller) ==
    [caller EXCEPT !.st = "done", !.data = Null, !.out = "rejected",
                   !.res = [out |-> "throw"]]

Waiting(b) == {c \in 1..NCallers :
                  callers[c].st = "waiting" /\ callers[c].batch = b}

QOff == [pc |-> "off"]

Init ==
    /\ now = 0
    /\ cache = [data |-> Null, timestamp |-> 0, fetchPromise |-> 0]
    /\ batches = <<>>
    /\ callers = [c \in 1..NCallers |-> Idle]
    /\ q = QOff

\* the module state that a call reads and writes
Module == [cache |-> cache, batches |-> batches, callers |-> callers]

\* the module state s after one call of fn(arg) by caller c at time t, up
\* to the first suspension of the call
Invoke(s, c, fn, arg, t) ==
    LET call == [Idle EXCEPT !.fn = fn, !.arg = arg]
    IN  IF IsFresh(s.cache, t)
        THEN [s EXCEPT !.callers[c] = Resume(call, s.cache.data, t)]
        ELSE IF JoinsInFlight(s.cache)
        THEN [s EXCEPT !.callers[c] =
                 [call EXCEPT !.st = "waiting",
                              !.batch = s.cache.fetchPromise]]
        ELSE [s EXCEPT
                 !.batches = Append(s.batches, NewBatch),
                 !.cache.fetchPromise = Len(s.batches) + 1,
                 !.callers[c] = [call EXCEPT !.st = "waiting",
                                             !.batch = Len(s.batches) + 1]]

\* one call of fn(arg) by caller c, up to its first suspension
Call(c, fn, arg) ==
    /\ callers[c].st # "waiting"
    /\ LET s == Invoke(Module, c, fn, arg, now)
       IN  /\ Len(s.batches) <= MaxBatches
           /\ cache' = s.cache
           /\ batches' = s.batches
           /\ callers' = s.callers
    /\ UNCHANGED <<now, q>>

getSharedWeatherData(c) == Call(c, "getSharedWeatherData", "")

NextSunEvent(c) ==
    \E name \in LocationNames : Call(c, "getNextSunEventForLocation", name)

CurrentWeather(c) ==
    \E name \in LocationNames : Call(c, "getCurrentWeatherForLocation", name)

PrecipitationProbability(c) ==
    \E name \in LocationNames :
        Call(c, "getTodayPrecipitationProbability", name)

\* the callers of module state s that wait for batch b
WaitingIn(s, b) == {c \in 1..NCallers :
                       s.callers[c].st = "waiting" /\ s.callers[c].batch = b}

\* the module state s after request i of its pending batch b has ended with
\* resp at time t: when that settles Promise.all, the rest of the async
\* function of the batch and the waiting calls run.
\* Promise.all rejects with the first rejection, so requests of a failed
\* batch can still be on the wire; what they end with reaches no handler
\* that changes anything, and is no step of the model
Settle(s, b, i, resp, t) ==
    LET req == [s.batches[b].req EXCEPT
                   ![i] = RequestChain(LOCATIONS[i], resp, b)]
        all == PromiseAll(req)
        non2xx == s.batches[b].non2xx \/ (resp.arrived /\ ~resp.ok)
    IN  IF all.st = "pending"
        THEN [s EXCEPT !.batches[b].req = req,
                       !.batches[b].non2xx = non2xx]
        ELSE IF all.st = "fulfilled"
        THEN [cache |-> Finally(Store(s.cache, all.value, t)),
              batches |-> [s.batches EXCEPT
                              ![b] = [NewBatch EXCEPT !.status = "resolved"]],
              callers |-> [c \in 1..NCallers |->
                              IF c \in WaitingIn(s, b)
                              THEN Resume(s.callers[c], Data(all.value), t)
                              ELSE s.callers[c]]]
        ELSE [cache |-> Finally(s.cache),
              batches |-> [s.batches EXCEPT
                              ![b] = [NewBatch EXCEPT
                                        !.status = "rejected",
                                        !.why = req[i].why,
                                        !.non2xx = non2xx]],
              callers |-> [c \in 1..NCallers |->
                              IF c \in WaitingIn(s, b)
                              THEN Reject(s.callers[c])
                              ELSE s.callers[c]]]

\* request i of batch b is on the wire
OnTheWire(b, i) ==
    /\ b \in 1..Len(batches)
    /\ batches[b].status = "pending"
    /\ batches[b].req[i].st = "pending"

\* request i of batch b ends with resp
Respond(b, i, resp) ==
    /\ OnTheWire(b, i)
    /\ LET s == Settle(Module, b, i, resp, now)
       IN  /\ cache' = s.cache
           /\ batches' = s.batches
           /\ callers' = s.callers
    /\ UNCHANGED <<now, q>>

\* a minute passes
Tick ==
    /\ now < MaxNow
    /\ now' = now + 1
    /\ UNCHANGED <<cache, batches, callers, q>>

Next ==
    \/ \E c \in 1..NCallers : getSharedWeatherData(c)
    \/ \E b \in 1..MaxBatches, i \in 1..NLoc, resp \in Responses :
          Respond(b, i, resp)
    \/ Tick

Spec == Init /\ [][Next]_vars

(***************************************************************************)
(* The derived queries on top of the coordinator.  Time advances by        *)
(* Quantum minutes at once here, so that the results, which depend on the  *)
(* minute at which a query resumes, stay few.                              *)
(***************************************************************************)
Elapse ==
    /\ now + Quantum <= MaxNow
    /\ now' = now + Quantum
    /\ UNCHANGED <<cache, batches, callers, q>>

\* caller 1 runs the derived queries; the other callers are the rest of the
\* page, which reaches the cache through getSharedWeatherData
NextD ==
    \/ \E c \in 2..NCallers : getSharedWeatherData(c)
    \/ NextSunEvent(1)
    \/ CurrentWeather(1)
    \/ PrecipitationProbability(1)
    \/ \E b \in 1..MaxBatches, i \in 1..NLoc, resp \in Responses :
          Respond(b, i, resp)
    \/ Elapse

SpecD == Init /\ [][NextD]_vars

(***************************************************************************)
(* The bodies of the derived queries as functions of the record set: the   *)
(* payload of the queried location ranges over well-formed and malformed   *)
(* shapes, the query time over 0..MaxQNow.                                 *)
(***************************************************************************)
\* a missing array, an empty one, every proper prefix and the full array
ArrShapes(full) ==
    {NoArr} \cup {Arr(SubSeq(full, 1, n)) : n \in 0..Len(full)}

QSunrise == <<1, 5>>
QSunset == <<2, 6>>
QProbability == <<40, 70>>
QTime == <<1, 3>>
QTemperature == <<214, 195>>
QApparent == <<206, 195>>
QCode == <<0, 61>>
QPrecipitation == <<0, 4>>

Dailies ==
    {NoDaily} \cup
    {Daily(sr, ss, pp) : sr \in ArrShapes(QSunrise),
                         ss \in {NoArr, Arr(<<>>), Arr(QSunset)},
                         pp \in {NoArr, Arr(<<>>), Arr(QProbability)}}

Hourlies ==
    {NoHourly} \cup
    {Hourly(tm, te, Arr(QApparent), wc, Arr(QPrecipitation)) :
        tm \in {NoArr, Arr(<<>>), Arr(QTime)},
        te \in ArrShapes(QTemperature),
        wc \in {NoArr, Arr(QCode)}}

Weathers == {NoWeather} \cup {Weather(d, h) : d \in Dailies, h \in Hourlies}

\* the record set of one batch in which LOCATIONS[1] got the payload w
RecordSet(w) ==
    [i \in 1..NLoc |->
        Record(LOCATIONS[i], IF i = 1 THEN w ELSE GoodWeather, 1)]

InitQ ==
    /\ now = 0
    /\ cache = [data |-> Null, timestamp |-> 0, fetchPromise |-> 0]
    /\ batches = <<>>
    /\ callers = [c \in 1..NCallers |-> Idle]
    /\ q \in {[pc |-> "ready", all |-> RecordSet(w), name |-> n, t |-> t,
               fn |-> "", res |-> NoResult] :
                 w \in Weathers, n \in LocationNames, t \in 0..MaxQNow}

QuerySun ==
    /\ q.pc = "ready"
    /\ q' = [q EXCEPT !.pc = "done", !.fn = "getNextSunEventForLocation",
                      !.res = getNextSunEventForLocation(q.all, q.name, q.t)]
    /\ UNCHANGED <<now, cache, batches, callers>>

QueryCurrent ==
    /\ q.pc = "ready"
    /\ q' = [q EXCEPT !.pc = "done", !.fn = "getCurrentWeatherForLocation",
                      !.res = getCurrentWeatherForLocation(q.all, q.name, q.t)]
    /\ UNCHANGED <<now, cache, batches, callers>>

QueryPrecipitation ==
    /\ q.pc = "ready"
    /\ q' = [q EXCEPT !.pc = "done",
                      !.fn = "getTodayPrecipitationProbability",
                      !.res = getTodayPrecipitationProbability(q.all, q.name)]
    /\ UNCHANGED <<now, cache, batches, callers>>

NextQ == QuerySun \/ QueryCurrent \/ QueryPrecipitation

SpecQ == InitQ /\ [][NextQ]_vars

(***************************************************************************)
(* The forecast over a change of the local date.  With forecast_days=2 the *)
(* endpoint answers with two daily entries, the first for the local date   *)
(* of the request.  The local date of the locations changes at minute      *)
(* MidnightAt.                                                             *)
(***************************************************************************)
\* the local date (0 or 1) at time t
LocalDate(t) == IF t < MidnightAt THEN 0 ELSE 1

\* what the forecast says for the daily maximum probability of date d
DailyMax(d) == 40 + 30 * d

\* the body of a forecast requested on local date d
ForecastOn(d) ==
    Weather(Daily(GoodDaily.sunrise, GoodDaily.sunset,
                  Arr(<<DailyMax(d), DailyMax(d + 1)>>)),
            GoodHourly)

\* request i of batch b is answered now, with the forecast of today
RespondForecast(b, i) ==
    Respond(b, i, [Http200 EXCEPT !.body = ForecastOn(LocalDate(now))])

\* request i of batch b fails on the network
RespondFailure(b, i) == Respond(b, i, NetworkError)

NextM ==
    \/ \E c \in 1..NCallers : PrecipitationProbability(c)
    \/ \E b \in 1..MaxBatches, i \in 1..NLoc : RespondForecast(b, i)
    \/ \E b \in 1..MaxBatches, i \in 1..NLoc : RespondFailure(b, i)
    \/ Tick

SpecM == Init /\ [][NextM]_vars

(***************************************************************************)
(* The schedulers of the page (components/Clock.jsx: useClock and the      *)
(* hourly effect of useWeatherManager) on a clock of milliseconds: in      *)
(* SpecT `now` counts milliseconds and q holds the timers of the page.     *)
(* A timer fires at its due time or later.  Each firing is recorded in     *)
(* q.tick; what a tick fetches and shows is the subject of SpecH.          *)
(***************************************************************************)
\* DateTime.now().minute, .second and .millisecond
Minute(t) == (t \div 60000) % 60
Second(t) == (t \div 1000) % 60
Millisecond(t) == t % 1000

\* a wall-clock reading within the first hour
WallClock(mi, s, ms) == mi * 60000 + s * 1000 + ms

\* a fixed delay of one minute in place of the computed one
msUntilNextMinuteFixed(t) == 60 * 1000

\* (60 - currentNow.second) * 1000 - currentNow.millisecond
msUntilNextMinute(t) == (60 - Second(t)) * 1000 - Millisecond(t)

\* a delay that counts the seconds left after the current one
msUntilNextHourShort(t) ==
    (60 - Minute(t) - 1) * 60 * 1000 + (59 - Second(t)) * 1000

\* the earlier revision of the hook:
\* (60 - initialTime.minute) * 60 * 1000 - initialTime.second * 1000
\*    - initialTime.millisecond
msUntilNextHourOlder(t) ==
    (60 - Minute(t)) * 60 * 1000 - Second(t) * 1000 - Millisecond(t)

\* (60 - initialTime.minute - 1) * 60 * 1000 + (60 - initialTime.second) * 1000
msUntilNextHour(t) == (60 - Minute(t) - 1) * 60 * 1000 + (60 - Second(t)) * 1000

\* a pending timer: set is the time at which it was set
Timer(id, kind, due, set) == [id |-> id, kind |-> kind, due |-> due, set |-> set]

\* the id that setTimeout or setInterval returns: a positive number that
\* names no other timer; the least one that neither a pending timer nor a
\* variable of the hooks holds
NewId(h) ==
    LET used == {t.id : t \in h.timers} \cup
                {h.timeoutIdRef, h.timeoutId, h.intervalId}
    IN  CHOOSE i \in 1..(Cardinality(used) + 1) :
           /\ i \notin used
           /\ \A j \in 1..(i - 1) : j \in used

\* scheduleNextTick(): timeoutIdRef.current = setTimeout(..., msUntilNextMinute)
scheduleNextTick(h, t) ==
    [h EXCEPT !.timers = @ \cup {Timer(NewId(h), "minute",
                                        t + msUntilNextMinute(t), t)},
              !.timeoutIdRef = NewId(h)]

\* the hourly effect: timeoutId = setTimeout(..., msUntilNextHour > 0 ?
\* msUntilNextHour : 0); fetchHourlyData()
scheduleHourly(h, t) ==
    [h EXCEPT !.timers = @ \cup {Timer(NewId(h), "hour",
                                        t + (IF msUntilNextHour(t) > 0
                                             THEN msUntilNextHour(t) ELSE 0),
                                        t)},
              !.timeoutId = NewId(h),
              !.tick = [kind |-> "hourly", at |-> t]]

\* weatherData[loc] before any tick has set it.  sunAt and hourlyAt are
\* history fields: the time of the update that wrote the sun event and the
\* current weather of the location
NoEntry ==
    [sun |-> NoResult, current |-> NoResult, precipitation |-> NoResult,
     sunAt |-> -1, hourlyAt |-> -1, sunTick |-> -1, hourlyTick |-> -1]

\* the hooks before their effects have run.  tick, cleared, failed and torn
\* are history fields: the last tick that fired, the timers that the last
\* teardown found pending, the ticks that last logged a failure, and the
\* batch that was in flight at the last teardown
Unmounted ==
    [pc |-> "timers", mounted |-> TRUE, timers |-> {}, timeoutIdRef |-> 0,
     timeoutId |-> 0, intervalId |-> 0,
     tick |-> [kind |-> "none", at |-> 0], cleared |-> {},
     weatherData |-> [i \in 1..NLoc |-> NoEntry],
     failed |-> [fns |-> {}, at |-> -1], torn |-> 0]

\* the times at which the page is mounted
MountTimes ==
    {WallClock(0, 0, 0), WallClock(58, 30, 500), WallClock(59, 0, 0),
     WallClock(59, 59, 999)}

\* how late a timer can fire
Lateness == {0, 1, 59999, 61000}

\* the hooks after the effects of useClock and of the hourly data have run
\* at time t
MountHooks(t) == scheduleHourly(scheduleNextTick(Unmounted, t), t)

InitT ==
    /\ now \in MountTimes
    /\ cache = [data |-> Null, timestamp |-> 0, fetchPromise |-> 0]
    /\ batches = <<>>
    /\ callers = [c \in 1..NCallers |-> Idle]
    /\ q = MountHooks(now)

\* the timers that are due first
Earliest == {t \in q.timers : \A u \in q.timers : t.due <= u.due}

\* time passes, up to the next due time or later; with no timer left, up to
\* the time at which the last of the cleared timers was due
Advance ==
    /\ \A t \in q.timers : t.due > now
    /\ \E target \in (IF q.timers = {}
                       THEN {t.due : t \in {u \in q.cleared :
                                               \A v \in q.cleared :
                                                  v.due <= u.due}}
                       ELSE {t.due + late : t \in Earliest,
                                            late \in Lateness}) :
          /\ target > now
          /\ target <= MaxTMinutes * 60000
          /\ now' = target
    /\ UNCHANGED <<cache, batches, callers, q>>

\* the callback of the timeout t of useClock, run at time tm:
\* setNow(DateTime.now()); scheduleNextTick()
MinuteTimeout(h, t, tm) ==
    scheduleNextTick([h EXCEPT !.timers = @ \ {t},
                               !.tick = [kind |-> "minute", at |-> tm]],
                     tm)

\* the callback of the timeout t of the hourly effect, run at time tm:
\* fetchHourlyData(); intervalId = setInterval(fetchHourlyData, 60 * 60 * 1000)
HourTimeout(h, t, tm) ==
    [h EXCEPT !.timers = (@ \ {t}) \cup
                 {Timer(NewId(h), "interval", tm + 60 * 60 * 1000, tm)},
              !.intervalId = NewId(h),
              !.tick = [kind |-> "hourly", at |-> tm]]

\* the callback of the interval t, run at time tm: fetchHourlyData().  The
\* next run of an interval is one period after `from`: the time this run
\* was due or the time it ran, whichever the browser does
Interval(h, t, tm, from) ==
    [h EXCEPT !.timers = (@ \ {t}) \cup
                 {Timer(t.id, "interval", from + 60 * 60 * 1000, tm)},
              !.tick = [kind |-> "hourly", at |-> tm]]

\* a cleanup that forgets the interval
CleanupIdsNoInterval(h) == {h.timeoutIdRef, h.timeoutId}

\* the timer ids the cleanups of the two effects clear:
\* clearTimeout(timeoutIdRef.current); clearTimeout(timeoutId);
\* if (intervalId) clearInterval(intervalId)
CleanupIds(h) ==
    {h.timeoutIdRef, h.timeoutId} \cup
    (IF h.intervalId # 0 THEN {h.intervalId} ELSE {})

\* the cleanups of the effects, run when the component unmounts; cleared
\* keeps the timers that were pending
Cleanup(h) ==
    [h EXCEPT !.mounted = FALSE,
              !.timers = {t \in @ : t.id \notin CleanupIds(h)},
              !.cleared = h.timers]

\* timer t is due and no other timer is due before it
Due(t) == t \in q.timers /\ t.due <= now /\ t \in Earliest

\* the timeout of useClock fires
FireMinute ==
    /\ \E t \in q.timers :
          Due(t) /\ t.kind = "minute" /\ q' = MinuteTimeout(q, t, now)
    /\ UNCHANGED <<now, cache, batches, callers>>

\* the timeout of the hourly effect fires
FireHourTimeout ==
    /\ \E t \in q.timers :
          Due(t) /\ t.kind = "hour" /\ q' = HourTimeout(q, t, now)
    /\ UNCHANGED <<now, cache, batches, callers>>

\* the interval fires
FireInterval ==
    /\ \E t \in q.timers :
          /\ Due(t)
          /\ t.kind = "interval"
          /\ \E from \in {t.due, now} : q' = Interval(q, t, now, from)
    /\ UNCHANGED <<now, cache, batches, callers>>

\* the component unmounts
Teardown ==
    /\ q.mounted
    /\ q' = Cleanup(q)
    /\ UNCHANGED <<now, cache, batches, callers>>

NextT ==
    \/ Advance
    \/ FireMinute
    \/ FireHourTimeout
    \/ FireInterval
    \/ Teardown

SpecT == InitT /\ [][NextT]_vars

(***************************************************************************)
(* The hooks on top of the coordinator (components/Clock.jsx:               *)
(* useClock and useWeatherManager with services/weatherService.js).  In    *)
(* SpecH `now` counts minutes, the page is mounted at minute MountMinute   *)
(* of an hour and timers fire on time; a caller of the coordinator is one  *)
(* run of fetchSunData or fetchHourlyData, suspended in its Promise.all.   *)
(***************************************************************************)
\* DateTime.now() in milliseconds at minute t of the model
ClockMs(t) == (MountMinute + t) * 60000

\* a 200 response whose payload has no daily block
Http200NoDaily == [Http200 EXCEPT !.body = Weather(NoDaily, GoodHourly)]

ResponsesH == {NetworkError, Http200, Http200NoDaily}

\* JSON.parse(JSON.stringify(prevData)): the entries hold strings, finite
\* numbers and undefined; a property that is undefined is dropped and
\* reads as undefined afterwards
JsonClone(prevData) == prevData

\* setWeatherData of fetchSunData: newWeatherData[loc] =
\* {...newWeatherData[loc], sun: sunResults[idx]} for every location
setSunData(h, res, t) ==
    [h EXCEPT !.weatherData =
        [i \in 1..NLoc |->
            [@[i] EXCEPT !.sun = res.sunResults[i], !.sunAt = t]]]

\* an hourly update that builds every entry anew
setHourlyDataAnew(h, res, t) ==
    [h EXCEPT !.weatherData =
        [i \in 1..NLoc |->
            [NoEntry EXCEPT
                !.current = res.weatherResults[i],
                !.precipitation = res.precipResults[i],
                !.hourlyAt = t]]]

\* setWeatherData of fetchHourlyData: current and precipitation of every
\* location
setHourlyData(h, res, t) ==
    [h EXCEPT !.weatherData =
        [i \in 1..NLoc |->
            [JsonClone(@)[i] EXCEPT
                !.current = res.weatherResults[i],
                !.precipitation = res.precipResults[i],
                !.hourlyAt = t]]]

\* a catch block that also empties the presentation state
CatchResetsData(h, fn, t) ==
    [h EXCEPT !.weatherData = [i \in 1..NLoc |-> NoEntry],
              !.failed = [fns |-> (IF @.at = t THEN @.fns ELSE {}) \cup {fn},
                          at |-> t]]

\* catch (error) { console.error('Failed to fetch ...', error); }
Catch(h, fn, t) ==
    [h EXCEPT !.failed = [fns |-> (IF @.at = t THEN @.fns ELSE {}) \cup {fn},
                          at |-> t]]

\* an update that takes the location results one by one, each as it is
SettledPerLocation(h, caller, t) ==
    IF caller.data.null THEN Catch(h, caller.fn, t)
    ELSE IF caller.fn = "fetchSunData"
    THEN [h EXCEPT !.weatherData =
            [i \in 1..NLoc |->
                IF caller.res.sunResults[i].out = "return"
                THEN [@[i] EXCEPT !.sun = caller.res.sunResults[i],
                                  !.sunAt = t]
                ELSE @[i]]]
    ELSE setHourlyData(h, caller.res, t)

\* the rest of fetchSunData or fetchHourlyData after its await: the state
\* update when every query has resolved, the catch block otherwise.  The
\* update of a component that is no longer mounted has no effect
Settled(h, caller, t) ==
    IF caller.out # "resolved" THEN Catch(h, caller.fn, t)
    ELSE IF ~h.mounted THEN h
    ELSE IF caller.fn = "fetchSunData"
    THEN [setSunData(h, caller.res, t) EXCEPT
            !.weatherData =
                [i \in 1..NLoc |-> [@[i] EXCEPT !.sunTick = caller.tick]]]
    ELSE [setHourlyData(h, caller.res, t) EXCEPT
            !.weatherData =
                [i \in 1..NLoc |-> [@[i] EXCEPT !.hourlyTick = caller.tick]]]

\* the runs applied from the last caller to the first
RECURSIVE SettledAllReversed(_, _, _, _)
SettledAllReversed(h, cl, c, t) ==
    IF c = 0 THEN h
    ELSE LET h1 == IF cl[c].st = "done" /\ cl[c].fn \in HookFunctions
                   THEN Settled(h, cl[c], t)
                   ELSE h
         IN  SettledAllReversed(h1, cl, c - 1, t)

\* the runs of the hook functions among callers 1..c that have come to
\* their end, applied to the hooks state h in the order of the callers,
\* which is the order in which the runs began to wait
RECURSIVE SettledAll(_, _, _, _)
SettledAll(h, cl, c, t) ==
    IF c = 0 THEN h
    ELSE LET h1 == SettledAll(h, cl, c - 1, t)
         IN  IF cl[c].st = "done" /\ cl[c].fn \in HookFunctions
             THEN Settled(h1, cl[c], t)
             ELSE h1

\* a cleanup that also aborts the fetch in flight
UnmountAborts(s) ==
    IF s.cache.fetchPromise = 0 THEN s
    ELSE [cache |-> Finally(s.cache),
          batches |-> [s.batches EXCEPT
                          ![s.cache.fetchPromise] =
                             [NewBatch EXCEPT !.status = "rejected",
                                              !.why = "abort"]],
          callers |-> [c \in 1..NCallers |->
                          IF c \in WaitingIn(s, s.cache.fetchPromise)
                          THEN Reject(s.callers[c])
                          ELSE s.callers[c]]]

\* what the cleanups of the effects do to the module state: nothing
Unmount(s) == s

\* fetchSunData() or fetchHourlyData() called by the tick that fires at
\* time t, up to its await
InvokeRun(s, c, fn, t) ==
    LET r == Invoke(s, c, fn, "", t)
    IN  [r EXCEPT !.callers[c].tick = t]

\* the module state after the effects of the page have run at time t:
\* fetchHourlyData() of the hourly effect, then fetchSunData() of the
\* effect on `now`
MountModule(s, t) ==
    InvokeRun(InvokeRun(s, 1, "fetchHourlyData", t), 2, "fetchSunData", t)

\* one task of the page ends with the hooks state h and the module state
\* s: the runs of the hook functions that came to their end in it have
\* changed h and are gone
HookStep(h, s) ==
    /\ Len(s.batches) <= MaxBatches
    /\ cache' = s.cache
    /\ batches' = s.batches
    /\ callers' = [c \in 1..NCallers |->
                      IF s.callers[c].st = "done" THEN Idle
                      ELSE s.callers[c]]
    /\ q' = SettledAll(h, s.callers, NCallers, now)
    /\ UNCHANGED now

InitH ==
    /\ now = 0
    /\ LET s == MountModule(
                   [cache |-> [data |-> Null, timestamp |-> 0,
                               fetchPromise |-> 0],
                    batches |-> <<>>,
                    callers |-> [c \in 1..NCallers |-> Idle]], 0)
       IN  /\ cache = s.cache
           /\ batches = s.batches
           /\ callers = s.callers
    /\ q = MountHooks(ClockMs(0))

\* timer t is due and no other timer is due before it
DueH(t) == t \in q.timers /\ t.due <= ClockMs(now) /\ t \in Earliest

\* the caller that stands for the next run of a hook function
FreeCaller(c) ==
    /\ callers[c].st # "waiting"
    /\ \A d \in 1..(c - 1) : callers[d].st = "waiting"

\* the timeout of useClock fires; the page renders with the new `now` and
\* the effect on `now` runs fetchSunData()
ClockTick ==
    \E t \in q.timers, c \in 1..NCallers :
       /\ DueH(t)
       /\ t.kind = "minute"
       /\ FreeCaller(c)
       /\ HookStep(MinuteTimeout(q, t, ClockMs(now)),
                   InvokeRun(Module, c, "fetchSunData", now))

\* the timeout or the interval of the hourly effect fires
HourlyTick ==
    \E t \in q.timers, c \in 1..NCallers :
       /\ DueH(t)
       /\ t.kind \in {"hour", "interval"}
       /\ FreeCaller(c)
       /\ HookStep(IF t.kind = "hour"
                   THEN HourTimeout(q, t, ClockMs(now))
                   ELSE Interval(q, t, ClockMs(now), t.due),
                   InvokeRun(Module, c, "fetchHourlyData", now))

\* request i of batch b ends with resp
RespondH(b, i, resp) ==
    /\ OnTheWire(b, i)
    /\ HookStep(q, Settle(Module, b, i, resp, now))

\* the component unmounts: the cleanups run and its state is gone
TeardownH ==
    /\ q.mounted
    /\ HookStep([Cleanup(q) EXCEPT
                    !.weatherData = [i \in 1..NLoc |-> NoEntry],
                    !.cleared = {},
                    !.torn = cache.fetchPromise],
                Unmount(Module))

\* the component is mounted again, with fresh state, while no run of the
\* earlier mount is suspended
MountH ==
    /\ ~q.mounted
    /\ \A c \in 1..NCallers : callers[c].st # "waiting"
    /\ HookStep([MountHooks(ClockMs(now)) EXCEPT !.torn = q.torn],
                MountModule(Module, now))

\* a minute passes
TickH ==
    /\ now < MaxNow
    /\ \A t \in q.timers : t.due > ClockMs(now)
    /\ now' = now + 1
    /\ UNCHANGED <<cache, batches, callers, q>>

NextH ==
    \/ ClockTick
    \/ HourlyTick
    \/ \E b \in 1..MaxBatches, i \in 1..NLoc, resp \in ResponsesH :
          RespondH(b, i, resp)
    \/ TeardownH
    \/ MountH
    \/ TickH

SpecH == InitH /\ [][NextH]_vars

(***************************************************************************)
(* The globe (components/WorldGlobe.jsx): the sun position, the loading of *)
(* the textures, the render loop and the teardown.  In SpecG, SpecP and    *)
(* SpecL `now` counts the minutes of UTC since 00:00 of the first day of a *)
(* leap year and q holds the state of the component; q.second is the       *)
(* second of the minute at the last frame.  Longitudes are in quarters of  *)
(* a degree, latitudes in hundredths of a degree, rotations in degrees.    *)
(***************************************************************************)
\* const CLOUDS_ROTATION_SPEED = 0
CLOUDS_ROTATION_SPEED == 0

\* DateTime.utc(): hour, minute and ordinal (day of the year, 1-366)
UtcHourRunning(t) == t \div 60

UtcHour(t) == (t \div 60) % 24
UtcMinute(t) == t % 60
UtcOrdinal(t) ==
    LET d == t \div 1440
    IN  IF d < 366 THEN d + 1 ELSE ((d - 366) % 365) + 1

\* the DateTime of second s of minute t
Utc(t, s) ==
    [hour |-> UtcHour(t), minute |-> UtcMinute(t), second |-> s,
     ordinal |-> UtcOrdinal(t)]

\* adjustedTime.hour + adjustedTime.minute / 60, in minutes
Hours(time) == time.hour * 60 + time.minute

\* ((-hours) / 24) * 360 - 180
RawLongitudeNoOffset(hours) == 0 - hours

RawLongitudeEastward(hours) == hours - 720

RawLongitude(hours) == (0 - hours) - 720

\* if (longitude < -180) longitude += 360; if (longitude > 180) longitude -= 360
WrapLongitudeNever(longitude) == longitude

WrapLongitude(longitude) ==
    LET wrapped == IF longitude < -720 THEN longitude + 1440 ELSE longitude
    IN  IF wrapped > 720 THEN wrapped - 1440 ELSE wrapped

\* Math.sin of an angle of x whole degrees, times 10000, by Bhaskara's
\* rational approximation
SinLinear(x) == 175 * x

Sin(x) ==
    LET y == x % 360
        half == IF y <= 180 THEN y ELSE y - 180
        p == half * (180 - half)
        v == (40000 * p) \div (40500 - p)
    IN  IF y <= 180 THEN v ELSE 0 - v

\* sunPosAt(time): [longitude, latitude, currentTime]
sunPosAt(time) ==
    LET longitude == WrapLongitude(RawLongitude(Hours(time)))
        dayOfYear == time.ordinal
        \* 23.45 * Math.sin(degToRad(360 / 365 * (dayOfYear - 81)))
        angle == ((dayOfYear - 81) * 360) \div 365
        latitude == (2345 * Sin(angle)) \div 10000
    IN  [longitude |-> longitude, latitude |-> latitude,
         currentTime |-> [hour |-> time.hour, minute |-> time.minute,
                          second |-> time.second]]

\* the four textures of Promise.all([...loadAsync])
Textures == {"day", "night", "height", "clouds"}

\* the component after its effect has run: the textures are loading, no
\* material is installed and no frame is requested
NoFrame ==
    [pc |-> "globe", mounted |-> TRUE, disposed |-> FALSE,
     textures |-> [x \in Textures |-> "pending"],
     material |-> FALSE, running |-> FALSE, logged |-> FALSE,
     rendersDisposed |-> FALSE, second |-> 0,
     lastRenderedMinute |-> -1,
     sunPosition |-> [longitude |-> 0, latitude |-> 0],
     utcTime |-> [hour |-> -1, minute |-> -1, second |-> -1],
     cloudsRotationY |-> 0]

\* animate() at the given time: the sun position is set when the minute of
\* the hour differs from the one of the last update; the clouds turn, the
\* scene is rendered and the next frame is requested in every call
animate(g, time) ==
    LET currentMinute == time.minute
        h == [g EXCEPT
                !.cloudsRotationY = @ + CLOUDS_ROTATION_SPEED,
                !.rendersDisposed = @ \/ g.disposed,
                !.running = TRUE]
    IN  IF currentMinute # g.lastRenderedMinute
        THEN [h EXCEPT
                !.sunPosition = [longitude |-> sunPosAt(time).longitude,
                                 latitude |-> sunPosAt(time).latitude],
                !.utcTime = sunPosAt(time).currentTime,
                !.lastRenderedMinute = currentMinute]
        ELSE h

\* the promise of Promise.all over the textures
LoadAllSettled(textures) ==
    IF \E x \in Textures : textures[x] = "pending" THEN "pending"
    ELSE "resolved"

LoadAll(textures) ==
    IF \E x \in Textures : textures[x] = "failed" THEN "rejected"
    ELSE IF \A x \in Textures : textures[x] = "loaded" THEN "resolved"
    ELSE "pending"

\* .then(([dayTexture, ...]) => {...}): the material, the clouds, and the
\* first call of animate()
Then(g, time) ==
    animate([g EXCEPT !.material = TRUE, !.cloudsRotationY = -90], time)

\* .catch(error => console.error("Failed to load textures:", error))
CatchLoad(g) == [g EXCEPT !.logged = TRUE]

\* one texture settles, and with it, perhaps, the promise of all of them
TextureSettles(g, x, outcome, time) ==
    LET h == [g EXCEPT !.textures[x] = outcome]
        before == LoadAll(g.textures)
        after == LoadAll(h.textures)
    IN  IF before = "pending" /\ after = "resolved" THEN Then(h, time)
        ELSE IF before = "pending" /\ after = "rejected" THEN CatchLoad(h)
        ELSE h

\* the cleanup of the effect: the canvas is removed, renderer and controls
\* are disposed, the resize listener is removed
CleanupGlobe(g) == [g EXCEPT !.mounted = FALSE, !.disposed = TRUE]

\* the seconds of a minute at which a frame is drawn
Seconds == {0, 59}

\* the minutes between one frame and the next: frames of the same minute,
\* of consecutive minutes, and a loop that was suspended
Gaps == {0, 1, 2, 59, 60, 61, 1440}

\* 31 December of the leap year, 00:00
LastDay == 365 * 1440

\* the times of the first frame
StartTimes == {LastDay, LastDay + 15, LastDay + 719, LastDay + 1439}

\* the component with all textures loaded at the given time
Loaded(time) ==
    Then([NoFrame EXCEPT !.textures = [x \in Textures |-> "loaded"],
                         !.second = time.second], time)

InitG ==
    /\ now \in StartTimes
    /\ cache = [data |-> Null, timestamp |-> 0, fetchPromise |-> 0]
    /\ batches = <<>>
    /\ callers = [c \in 1..NCallers |-> Idle]
    /\ \E s \in Seconds : q = Loaded(Utc(now, s))

\* requestAnimationFrame(animate): the next frame, gap minutes later, at
\* second s
Frame(gap, s) ==
    /\ q.running
    /\ gap = 0 => s >= q.second
    /\ now + gap <= LastDay + 1439 + MaxGNow
    /\ now' = now + gap
    /\ q' = animate([q EXCEPT !.second = s], Utc(now + gap, s))
    /\ UNCHANGED <<cache, batches, callers>>

NextG == \E gap \in Gaps, s \in Seconds : Frame(gap, s)

SpecG == InitG /\ [][NextG]_vars

(***************************************************************************)
(* SpecP: the first frame on every day of the leap year and of the year    *)
(* after it, and the frames of the same minute.                            *)
(***************************************************************************)
InitP ==
    /\ \E d \in 0 .. (366 + MaxPDays), m \in {0, 720, 1439} :
          now = d * 1440 + m
    /\ cache = [data |-> Null, timestamp |-> 0, fetchPromise |-> 0]
    /\ batches = <<>>
    /\ callers = [c \in 1..NCallers |-> Idle]
    /\ q = Loaded(Utc(now, 0))

NextP == \E s \in Seconds : Frame(0, s)

SpecP == InitP /\ [][NextP]_vars

(***************************************************************************)
(* SpecL: the life of the component from its mount: the textures settle    *)
(* one by one, the loop runs for MaxLNow minutes, the component is torn    *)
(* down at any moment.                                                     *)
(***************************************************************************)
InitL ==
    /\ now = LastDay + 1439
    /\ cache = [data |-> Null, timestamp |-> 0, fetchPromise |-> 0]
    /\ batches = <<>>
    /\ callers = [c \in 1..NCallers |-> Idle]
    /\ q = NoFrame

TextureLoads(x) ==
    /\ q.textures[x] = "pending"
    /\ q' = TextureSettles(q, x, "loaded", Utc(now, q.second))
    /\ UNCHANGED <<now, cache, batches, callers>>

TextureFails(x) ==
    /\ q.textures[x] = "pending"
    /\ q' = TextureSettles(q, x, "failed", Utc(now, q.second))
    /\ UNCHANGED <<now, cache, batches, callers>>

FrameL ==
    /\ \E gap \in {0, 1}, s \in Seconds :
          /\ now + gap <= LastDay + 1439 + MaxLNow
          /\ Frame(gap, s)

TeardownG ==
    /\ q.mounted
    /\ q' = CleanupGlobe(q)
    /\ UNCHANGED <<now, cache, batches, callers>>

NextL ==
    \/ \E x \in Textures : TextureLoads(x)
    \/ \E x \in Textures : TextureFails(x)
    \/ FrameL
    \/ TeardownG

SpecL == InitL /\ [][NextL]_vars

(***************************************************************************)
(* The fragment shader of the globe (dayNightShader.fragmentShader).  In   *)
(* SpecF q holds the uniforms and varyings of one fragment and, after      *)
(* main() has run, its outputs.  Angles are in whole degrees; sines and    *)
(* the vectors made of them are times 10000; normalized vectors, the       *)
(* intensity and the blend factor are times 1000; a colour is a sequence   *)
(* of three channels, 0 to 255.                                            *)
(***************************************************************************)
\* cos(toRad(x)), times 10000
Cos(x) == Sin(x + 90)

RECURSIVE SqrtBetween(_, _, _)
SqrtBetween(n, lo, hi) ==
    IF lo >= hi THEN lo
    ELSE LET mid == (lo + hi + 1) \div 2
         IN  IF mid * mid <= n THEN SqrtBetween(n, mid, hi)
             ELSE SqrtBetween(n, lo, mid - 1)

\* the whole part of the square root
Sqrt(n) == SqrtBetween(n, 0, 46340)

\* vec3 Polar2Cartesian(in vec2 c), c = [lng, lat]
Polar2Cartesian(c) ==
    LET theta == 90 - c[1]
        phi == 90 - c[2]
    IN  << (Sin(phi) * Cos(theta)) \div 10000,
           Cos(phi),
           (Sin(phi) * Sin(theta)) \div 10000 >>

\* rotX * v and rotY * v; mat3(...) lists the matrix column by column
rotX(invLat, v) ==
    << v[1],
       (Cos(invLat) * v[2] + Sin(invLat) * v[3]) \div 10000,
       ((0 - Sin(invLat)) * v[2] + Cos(invLat) * v[3]) \div 10000 >>

rotY(invLon, v) ==
    << (Cos(invLon) * v[1] - Sin(invLon) * v[3]) \div 10000,
       v[2],
       (Sin(invLon) * v[1] + Cos(invLon) * v[3]) \div 10000 >>

\* normalize(v), times 1000
normalize(v) ==
    LET length == Sqrt(v[1] * v[1] + v[2] * v[2] + v[3] * v[3])
    IN  << (v[1] * 1000) \div length, (v[2] * 1000) \div length,
           (v[3] * 1000) \div length >>

\* dot(a, b) of two normalized vectors, times 1000
dot(a, b) == (a[1] * b[1] + a[2] * b[2] + a[3] * b[3]) \div 1000

clamp(x, lo, hi) == IF x < lo THEN lo ELSE IF x > hi THEN hi ELSE x

\* smoothstep(edge0, edge1, x): t * t * (3 - 2 t) with
\* t = clamp((x - edge0) / (edge1 - edge0), 0, 1)
smoothstep(edge0, edge1, x) ==
    LET t == clamp(((x - edge0) * 1000) \div (edge1 - edge0), 0, 1000)
    IN  (t * t * (3000 - 2 * t)) \div 1000000

\* mix(x, y, a) = x * (1 - a) + y * a, channel by channel
mixSwapped(x, y, a) ==
    [k \in 1..3 |-> (y[k] * (1000 - a) + x[k] * a) \div 1000]

mix(x, y, a) ==
    [k \in 1..3 |-> (x[k] * (1000 - a) + y[k] * a) \div 1000]

\* void main() of the fragment shader
main(f) ==
    LET invLon == f.globeRotation[1]
        invLat == 0 - f.globeRotation[2]
        rotatedSunDirection ==
            rotX(invLat, rotY(invLon, Polar2Cartesian(f.sunPosition)))
        intensity == dot(normalize(f.vNormal),
                         normalize(rotatedSunDirection))
        blendFactor == smoothstep(-100, 100, intensity)
    IN  [f EXCEPT !.done = TRUE,
                  !.rotatedSunDirection = rotatedSunDirection,
                  !.intensity = intensity,
                  !.blendFactor = blendFactor,
                  !.gl_FragColor = mix(f.nightColor, f.dayColor, blendFactor)]

\* the longitudes and latitudes of the sun, in whole degrees
SunLongitudes ==
    {-180, -135, -97, -94, -92, -90, -88, -86, -83, -45, 0, 45, 83, 86,
     88, 90, 92, 94, 97, 135, 180}

SunLatitudes == {-23, 0, 23}

\* Globe.toGeoCoords(camera.position): [lng, lat]
GlobeRotations == {<<0, 0>>, <<90, 0>>, <<-69, -13>>, <<14, 51>>}

\* the interpolated normals of the fragments, in view space
Normals == {<<0, 0, 1>>, <<3, 0, 4>>, <<0, 2, 0>>, <<-2, 1, 2>>}

\* the texels of the day and of the night texture
DayColors == {<<255, 255, 255>>, <<30, 90, 200>>}

NightColors == {<<0, 0, 0>>, <<40, 30, 10>>}

InitF ==
    /\ now = 0
    /\ cache = [data |-> Null, timestamp |-> 0, fetchPromise |-> 0]
    /\ batches = <<>>
    /\ callers = [c \in 1..NCallers |-> Idle]
    /\ \E lng \in SunLongitudes, lat \in SunLatitudes,
          rotation \in GlobeRotations, normal \in Normals,
          day \in DayColors, night \in NightColors :
          q = [pc |-> "fragment", done |-> FALSE,
               sunPosition |-> <<lng, lat>>, globeRotation |-> rotation,
               vNormal |-> normal, dayColor |-> day, nightColor |-> night,
               rotatedSunDirection |-> <<0, 0, 0>>, intensity |-> 0,
               blendFactor |-> 0, gl_FragColor |-> <<0, 0, 0>>]

FragmentMain ==
    /\ ~q.done
    /\ q' = main(q)
    /\ UNCHANGED <<now, cache, batches, callers>>

NextF == FragmentMain

SpecF == InitF /\ [][NextF]_vars

(***************************************************************************)
(* Properties.                                                             *)
(***************************************************************************)
PendingBatches == {b \in 1..Len(batches) : batches[b].status = "pending"}

\* this step is a call by c (a caller that was not suspended has changed)
CallStep(c) == callers[c].st # "waiting" /\ callers'[c] # callers[c]

\* this step starts a fetch batch
StartsBatch == Len(batches') = Len(batches) + 1

\* this step is the failure of batch b
Fails(b) == /\ b \in 1..Len(batches)
            /\ batches[b].status = "pending"
            /\ batches'[b].status = "rejected"

\* C1 - single-flight: at most one fetch batch is pending at any time, it
\* is the one cache.fetchPromise names, and every suspended call waits for
\* that same batch, so calls made before it settles cause no second batch.
C1_SingleFlight ==
    /\ Cardinality(PendingBatches) <= 1
    /\ \A b \in PendingBatches : cache.fetchPromise = b
    /\ \A c \in 1..NCallers :
          callers[c].st = "waiting" =>
             /\ cache.fetchPromise # 0
             /\ callers[c].batch = cache.fetchPromise
             /\ callers[c].batch \in PendingBatches

\* every caller has called while nothing was cached and all of them wait
\* for the one batch that exists
C1_Witness ==
    /\ Len(batches) = 1
    /\ cache.data.null
    /\ \A c \in 1..NCallers :
          callers[c].st = "waiting" /\ callers[c].batch = 1

\* C2 - cache freshness: a call starts a new fetch if and only if (there is
\* no data or now - timestamp >= 15 minutes) and no fetch is in flight; with
\* data younger than 15 minutes it returns the cached data at once and
\* changes neither the cache nor the batches.
C2_Freshness ==
    [][\A c \in 1..NCallers :
          CallStep(c) =>
            /\ StartsBatch <=>
                  /\ cache.data.null
                     \/ now - cache.timestamp >= CACHE_DURATION
                  /\ cache.fetchPromise = 0
            /\ (~cache.data.null /\ now - cache.timestamp < CACHE_DURATION)
                  => /\ callers'[c].st = "done"
                     /\ callers'[c].out = "resolved"
                     /\ callers'[c].data = cache.data
                     /\ UNCHANGED <<cache, batches>>]_vars

\* data is cached and a fetch is in flight exactly 15 minutes after the
\* data was stored: it was started by a call made at that minute
C2_Witness ==
    /\ ~cache.data.null
    /\ now - cache.timestamp = CACHE_DURATION
    /\ cache.fetchPromise # 0
    /\ \E c \in 1..NCallers :
          callers[c].st = "waiting" /\ callers[c].batch = cache.fetchPromise

\* a record set holds one record per configured location, in the order of
\* LOCATIONS, all of one batch, and that batch has succeeded
Complete(d) ==
    \/ d.null
    \/ /\ Len(d.v) = NLoc
       /\ \A i \in 1..NLoc :
             /\ d.v[i].name = LOCATIONS[i].name
             /\ d.v[i].batch = d.v[1].batch
       /\ d.v[1].batch \in 1..Len(batches)
       /\ batches[d.v[1].batch].status = "resolved"

AllComplete ==
    /\ Complete(cache.data)
    /\ \A c \in 1..NCallers :
          callers[c].out = "resolved" =>
             ~callers[c].data.null /\ Complete(callers[c].data)

\* C3 - atomic replacement: the cached record set and every record set a
\* call has resolved with is complete (one record per location, all of the
\* same successful batch), and the failure of a batch stores nothing.
C3_AtomicReplacement ==
    [][/\ AllComplete
       /\ AllComplete'
       /\ \A b \in 1..Len(batches) :
             Fails(b) => /\ cache'.data = cache.data
                         /\ cache'.timestamp = cache.timestamp]_vars

\* the cache has been replaced by the set of batch 2 while a call still
\* holds the set it got from batch 1
C3_Witness ==
    /\ ~cache.data.null
    /\ cache.data.v[1].batch = 2
    /\ \E c \in 1..NCallers :
          /\ callers[c].out = "resolved"
          /\ callers[c].data.v[1].batch = 1

\* C4 - retry after failure: the failure of a batch clears the in-flight
\* marker and starts no batch, the marker never names a settled batch, and
\* the next call made without fresh data starts one new batch and waits for
\* it.
C4_RetryAfterFailure ==
    [][/\ cache'.fetchPromise # 0 =>
             /\ cache'.fetchPromise \in 1..Len(batches')
             /\ batches'[cache'.fetchPromise].status = "pending"
       /\ \A b \in 1..Len(batches) :
             Fails(b) => /\ cache'.fetchPromise = 0
                         /\ Len(batches') = Len(batches)
       /\ \A c \in 1..NCallers :
             ( /\ CallStep(c)
               /\ Len(batches) > 0
               /\ batches[Len(batches)].status = "rejected"
               /\ cache.data.null \/ now - cache.timestamp >= CACHE_DURATION )
             => /\ StartsBatch
                /\ cache'.fetchPromise = Len(batches) + 1
                /\ callers'[c].st = "waiting"
                /\ callers'[c].batch = Len(batches) + 1]_vars

\* batch 1 has failed and a later call has started batch 2 and waits for it
C4_Witness ==
    /\ Len(batches) = 2
    /\ batches[1].status = "rejected"
    /\ batches[2].status = "pending"
    /\ cache.fetchPromise = 2
    /\ \E c \in 1..NCallers :
          callers[c].st = "waiting" /\ callers[c].batch = 2

\* C5 - error to all waiters: when a batch fails, every call waiting for it
\* (the one that started it and the ones that joined) rejects in that step
\* without data, and no call stays suspended on a settled batch.
C5_ErrorToAllWaiters ==
    [][/\ \A b \in 1..Len(batches) :
             Fails(b) =>
                \A c \in Waiting(b) :
                   /\ callers'[c].st = "done"
                   /\ callers'[c].out = "rejected"
                   /\ callers'[c].data.null
       /\ \A c \in 1..NCallers :
             callers'[c].st = "waiting" =>
                batches'[callers'[c].batch].status = "pending"]_vars

\* stale data is cached and the batch that every caller waited for failed
C5_Witness ==
    /\ ~cache.data.null
    /\ \E b \in 1..Len(batches) :
          /\ batches[b].status = "rejected"
          /\ \A c \in 1..NCallers :
                /\ callers[c].st = "done"
                /\ callers[c].batch = b
                /\ callers[c].out = "rejected"

\* the call of c waited for a batch that failed
AwaitFailed(c) ==
    /\ callers[c].st = "done"
    /\ callers[c].batch \in 1..Len(batches)
    /\ batches[callers[c].batch].status = "rejected"

UnknownQuery(c) ==
    /\ callers[c].fn \in DerivedQueries
    /\ callers[c].arg = UnknownName
    /\ callers[c].st = "done"

QWeather == q.all[1].weather

QDone == q.pc = "done" /\ q.name = LOCATIONS[1].name /\ QWeather.def

\* a block or an array that the query fn reads is missing from payload w
MissingFor(fn, w) ==
    CASE fn = "getNextSunEventForLocation" ->
            \/ ~w.daily.def
            \/ ~w.daily.sunrise.def
            \/ ~w.daily.sunset.def
      [] fn = "getCurrentWeatherForLocation" ->
            \/ ~w.daily.def
            \/ ~w.daily.sunrise.def
            \/ ~w.daily.sunset.def
            \/ ~w.hourly.def
            \/ ~w.hourly.time.def
      [] fn = "getTodayPrecipitationProbability" ->
            \/ ~w.daily.def
            \/ ~w.daily.precipitation_probability_max.def

\* C8 - malformed payload: when the record of the location is present but
\* a block or an array the query reads is missing (no daily block, no
\* hourly block, no sunrise, sunset or probability array), the query
\* returns its sentinel: it neither raises nor returns another value.
C8_MalformedPayloadSentinel ==
    (QDone /\ MissingFor(q.fn, QWeather)) => q.res = Sentinel(q.fn)

\* the query fn reads an index that payload w, with all its blocks and
\* arrays present, has no entry at (or, for the hourly scan, finds no
\* sample <= t)
IndexMiss(fn, w, t) ==
    CASE fn = "getNextSunEventForLocation" ->
            Len(w.daily.sunrise.v) < 2 \/ Len(w.daily.sunset.v) < 1
      [] fn = "getCurrentWeatherForLocation" ->
            \/ Len(w.daily.sunrise.v) < 1
            \/ Len(w.daily.sunset.v) < 1
            \/ CurrentIndex(w.hourly.time, DateTimeNow(t)) = -1
      [] fn = "getTodayPrecipitationProbability" ->
            Len(w.daily.precipitation_probability_max.v) < 1

\* C9 - failed index lookup: the current-conditions query returns the
\* sentinel when no hourly sample is <= now, and a query whose daily array
\* has no entry at the index it reads (sunrise[0], sunset[0], sunrise[1],
\* precipitation_probability_max[0]) returns its sentinel.
C9_IndexMissSentinel ==
    (QDone /\ ~MissingFor(q.fn, QWeather) /\ IndexMiss(q.fn, QWeather, q.t))
       => q.res = Sentinel(q.fn)

\* every record that the cache or a resolved call holds
HeldRecords ==
    {cache.data.v[i] : i \in 1..Len(cache.data.v)} \cup
    UNION {{callers[c].data.v[i] : i \in 1..Len(callers[c].data.v)} :
              c \in 1..NCallers}

\* this step brings the first non-2xx response of batch b
Non2xxArrives(b) ==
    /\ b \in 1..Len(batches)
    /\ ~batches[b].non2xx
    /\ batches'[b].non2xx

\* C10 - non-2xx is a failure: a non-2xx response for any location makes
\* the batch fail in that step, leaves cache.data and cache.timestamp as
\* they were, rejects the waiting calls, and no record that the cache or a
\* call holds comes from a batch that was answered with a non-2xx status.
C10_Non2xxFailsBatch ==
    [][/\ \A b \in 1..Len(batches) :
             Non2xxArrives(b) =>
                /\ batches'[b].status = "rejected"
                /\ cache'.data = cache.data
                /\ cache'.timestamp = cache.timestamp
                /\ cache'.fetchPromise = 0
                /\ \A c \in Waiting(b) :
                      /\ callers'[c].out = "rejected"
                      /\ callers'[c].data.null
       /\ \A r \in HeldRecords' : ~batches'[r.batch].non2xx]_vars

\* batch 2 was answered with a non-2xx status and failed, its caller got
\* the error and the cache still holds the set of batch 1
C10_Witness ==
    /\ Len(batches) >= 2
    /\ batches[2].non2xx
    /\ batches[2].status = "rejected"
    /\ batches[2].why = "status"
    /\ ~cache.data.null
    /\ cache.data.v[1].batch = 1
    /\ \E c \in 1..NCallers :
          callers[c].batch = 2 /\ callers[c].out = "rejected"

\* the minutes that a value of toFormat('h:mm') stands for
Minutes(time) ==
    IF time.n >= 0 THEN (time.n \div 100) * 60 + (time.n % 100)
    ELSE 0 - (((0 - time.n) \div 100) * 60 + ((0 - time.n) % 100))

\* the query of SpecQ is fn and found a payload whose daily block has both
\* sunrises and today's sunset
QSunData ==
    /\ QDone
    /\ QWeather.daily.def
    /\ QWeather.daily.sunrise.def /\ Len(QWeather.daily.sunrise.v) >= 2
    /\ QWeather.daily.sunset.def /\ Len(QWeather.daily.sunset.v) >= 1

\* C11 - next sun event: before today's sunrise the query returns the
\* sunrise with sunriseToday - now remaining; from today's sunrise on and
\* before today's sunset it returns the sunset (shown with the moon icon)
\* with sunsetToday - now remaining; from today's sunset on it returns
\* tomorrow's sunrise with sunriseTomorrow - now remaining.
C11_NextSunEvent ==
    (QSunData /\ q.fn = "getNextSunEventForLocation") =>
       LET sunriseToday == QWeather.daily.sunrise.v[1]
           sunsetToday == QWeather.daily.sunset.v[1]
           sunriseTomorrow == QWeather.daily.sunrise.v[2]
       IN  /\ q.res.out = "return"
           /\ q.res.time.t = "h:mm"
           /\ q.t < sunriseToday =>
                 /\ q.res.icon = "sunrise_today"
                 /\ Minutes(q.res.time) = sunriseToday - q.t
           /\ (sunriseToday <= q.t /\ q.t < sunsetToday) =>
                 /\ q.res.icon = "moon"
                 /\ Minutes(q.res.time) = sunsetToday - q.t
           /\ q.t >= sunsetToday =>
                 /\ q.res.icon = "sunrise"
                 /\ Minutes(q.res.time) = sunriseTomorrow - q.t

\* the query ran at the very minute of today's sunset and returned
\* tomorrow's sunrise
C11_Witness ==
    /\ QSunData
    /\ q.fn = "getNextSunEventForLocation"
    /\ q.t = QWeather.daily.sunset.v[1]
    /\ q.res.icon = "sunrise"
    /\ Minutes(q.res.time) = QWeather.daily.sunrise.v[2] - q.t

\* the query of SpecQ found a payload with both blocks and every array it
\* reads, one entry per hourly sample
QHourlyData ==
    /\ QDone
    /\ QWeather.daily.def
    /\ QWeather.daily.sunrise.def /\ QWeather.daily.sunset.def
    /\ QWeather.hourly.def
    /\ QWeather.hourly.time.def /\ Len(QWeather.hourly.time.v) > 0
    /\ \A a \in {QWeather.hourly.temperature_2m,
                  QWeather.hourly.apparent_temperature,
                  QWeather.hourly.weathercode,
                  QWeather.hourly.precipitation} :
          a.def /\ Len(a.v) = Len(QWeather.hourly.time.v)

\* the (1-based) samples of the payload that are not after the query time
QSamplesUpToNow ==
    {i \in 1..Len(QWeather.hourly.time.v) : QWeather.hourly.time.v[i] <= q.t}

\* the query result is made of sample i (1-based) of the payload
QUsesSample(i) ==
    LET h == QWeather.hourly
    IN  /\ q.res.out = "return"
        /\ q.res.precipitation = Num(h.precipitation.v[i])
        /\ q.res.temperature =
              TemperatureText(Num(h.temperature_2m.v[i]),
                              Num(h.apparent_temperature.v[i]))
        /\ q.res.icon \in {getWeatherIcon(Num(h.weathercode.v[i]), d) :
                               d \in BOOLEAN}

\* C12 - current conditions: the query reads temperature, weather code and
\* precipitation of the latest hourly sample that is not after now: the
\* earlier sample when now lies strictly between two samples, the sample
\* itself when now is exactly on it, and never a sample after now.
C12_LatestSampleNotAfterNow ==
    (QHourlyData /\ q.fn = "getCurrentWeatherForLocation"
       /\ QSamplesUpToNow # {}) =>
       \E i \in QSamplesUpToNow :
          /\ \A j \in QSamplesUpToNow : j <= i
          /\ QUsesSample(i)
          /\ \A k \in 1..Len(QWeather.hourly.time.v) :
                k # i => ~QUsesSample(k)

\* the query ran strictly between the two samples and returned the first
C12_Witness ==
    /\ QHourlyData
    /\ q.fn = "getCurrentWeatherForLocation"
    /\ Len(QWeather.hourly.time.v) = 2
    /\ QWeather.hourly.time.v[1] < q.t
    /\ q.t < QWeather.hourly.time.v[2]
    /\ QUsesSample(1)

\* this step completes a precipitation query of c for a configured location
\* with a value
PrecipitationReturns(c) ==
    /\ callers'[c] # callers[c]
    /\ callers'[c].st = "done"
    /\ callers'[c].fn = "getTodayPrecipitationProbability"
    /\ callers'[c].arg # UnknownName
    /\ callers'[c].out = "resolved"

\* C13 - precipitation probability: a query returns the daily maximum
\* precipitation probability of the local date at the time of the query,
\* also when the forecast it reads was fetched before local midnight and is
\* read, still fresh, after it.
C13_ProbabilityOfCurrentDate ==
    [][\A c \in 1..NCallers :
          PrecipitationReturns(c) =>
             callers'[c].res.maxPrecipitationProbability =
                Num(DailyMax(LocalDate(now)))]_vars

\* the pending timers of one kind
Timers(kind) == {t \in q.timers : t.kind = kind}

\* C17 - the minute tick realigns itself: every minute timer is set with a
\* delay in (0, 60000] ms that ends exactly at the first minute boundary
\* after the time it was set, also when it was set by a tick that fired
\* late, and at most one minute timer is pending at any time.
C17_MinuteTickRealigns ==
    /\ Cardinality(Timers("minute")) <= 1
    /\ \A t \in Timers("minute") :
          /\ t.due - t.set \in 1..60000
          /\ t.due % 60000 = 0
          /\ t.due = ((t.set \div 60000) + 1) * 60000

\* a tick fired 59999 ms late and the next one is set 1 ms ahead
C17_Witness ==
    /\ q.tick.kind = "minute"
    /\ q.tick.at % 60000 = 59999
    /\ \E t \in Timers("minute") : t.set = q.tick.at /\ t.due = t.set + 1

\* C18 - the hourly tick realigns itself: every hourly tick, the first one
\* and each one after it, is scheduled for a wall-clock hour boundary.
C18_HourlyTickRealigns ==
    \A t \in Timers("hour") \cup Timers("interval") :
       t.due % (60 * 60 * 1000) = 0

\* C15 - teardown stops the schedulers: once the hooks are torn down no
\* timer is pending and no minute tick and no hourly tick fires any more,
\* whichever timers were pending at the teardown.
C15_TeardownStopsTicks ==
    [][~q.mounted => /\ q.timers = {}
                     /\ q'.timers = {}
                     /\ q'.tick = q.tick]_vars

\* the hooks were torn down with a minute timeout and the hourly interval
\* pending, and the time at which the interval was due has come
C15_Witness ==
    /\ ~q.mounted
    /\ q.timers = {}
    /\ \E t \in q.cleared : t.kind = "minute"
    /\ \E t \in q.cleared : t.kind = "interval" /\ t.due <= now

\* this step logs the failure of a run of fn
LogsFailure(fn) ==
    /\ q'.failed # q.failed
    /\ q'.failed.at = now
    /\ fn \in q'.failed.fns

\* this step leaves what the runs of fn show as it was
LeavesShown(fn) ==
    \A i \in 1..NLoc :
       IF fn = "fetchSunData"
       THEN /\ q'.weatherData[i].sun = q.weatherData[i].sun
            /\ q'.weatherData[i].sunAt = q.weatherData[i].sunAt
       ELSE /\ q'.weatherData[i].current = q.weatherData[i].current
            /\ q'.weatherData[i].precipitation =
                  q.weatherData[i].precipitation
            /\ q'.weatherData[i].hourlyAt = q.weatherData[i].hourlyAt

\* C14 - a failed tick is logged and cancels nothing: in the step in which
\* a run of fetchSunData or fetchHourlyData fails (the fetch failed or a
\* query threw), what that run shows stays as it was, and while the page
\* is mounted one minute timeout stays pending for the next minute boundary
\* and one hourly timer stays pending for its scheduled time.
C14_FailedTickKeepsSchedule ==
    [][\A fn \in HookFunctions :
          LogsFailure(fn) =>
             /\ LeavesShown(fn)
             /\ q'.mounted =>
                   /\ \E t \in q'.timers :
                         /\ t.kind = "minute"
                         /\ t.due % 60000 = 0
                         /\ t.due >= ClockMs(now)
                         /\ t.due <= ClockMs(now) + 60000
                   /\ \E t \in q'.timers :
                         /\ t.kind \in {"hour", "interval"}
                         /\ t.due >= ClockMs(now)
                         /\ q.mounted =>
                               (t \in q.timers \/ t.set = ClockMs(now))]_vars

\* the current weather was shown, a later run of fetchSunData failed and
\* left it, and a minute tick has fired after the failure
C14_Witness ==
    /\ q.mounted
    /\ "fetchSunData" \in q.failed.fns
    /\ q.weatherData[1].hourlyAt >= 0
    /\ q.weatherData[1].hourlyAt < q.failed.at
    /\ q.tick.kind = "minute"
    /\ q.tick.at > ClockMs(q.failed.at)

\* C16 - barrier per tick: the presentation state never shows one location
\* updated by a tick and another not (the sun events of all locations come
\* from one update, and so do the current conditions), and a run in which
\* the query of any location rejects updates no location at all.
C16_BarrierPerTick ==
    [][/\ \A i, j \in 1..NLoc :
             /\ q'.weatherData[i].sunAt = q'.weatherData[j].sunAt
             /\ q'.weatherData[i].hourlyAt = q'.weatherData[j].hourlyAt
       /\ \A fn \in HookFunctions : LogsFailure(fn) => LeavesShown(fn)]_vars

\* the forecast of one location came without its daily block and that of
\* the other complete: one sun query threw, the other returned, and the
\* run of fetchSunData failed when the sun events were already shown
C16_Witness ==
    /\ q.mounted
    /\ ~cache.data.null
    /\ ~cache.data.v[1].weather.daily.def
    /\ cache.data.v[2].weather.daily.def
    /\ "fetchSunData" \in q.failed.fns
    /\ q.failed.at >= cache.timestamp
    /\ q.weatherData[1].sunAt >= 0

\* this step is the teardown of the hooks
TearsDown == q.mounted /\ ~q'.mounted

\* this step mounts the page again
Remounts == ~q.mounted /\ q'.mounted

\* C19 - teardown leaves the fetch and the cache alone: the teardown
\* changes neither the cache nor the batch in flight nor the calls waiting
\* for it; a batch that succeeds, mounted or not, stores its records and
\* the time in the cache and clears the in-flight marker; and a page
\* mounted within 15 minutes of that is served from the cache without a new
\* fetch.
C19_TeardownLeavesFetch ==
    [][/\ TearsDown => UNCHANGED <<cache, batches, callers>>
       /\ \A b \in 1..Len(batches) :
             (batches[b].status = "pending" /\ batches'[b].status = "resolved")
                => /\ ~cache'.data.null
                   /\ \A i \in 1..NLoc : cache'.data.v[i].batch = b
                   /\ cache'.timestamp = now
                   /\ cache'.fetchPromise = 0
       /\ (Remounts /\ ~cache.data.null
              /\ now - cache.timestamp < CACHE_DURATION)
             => /\ UNCHANGED <<cache, batches>>
                /\ \A i \in 1..NLoc : q'.weatherData[i].hourlyAt = now]_vars

\* batch 1 was in flight at the teardown, has succeeded since, and the page
\* mounted after it shows current conditions without a second batch
C19_Witness ==
    /\ q.mounted
    /\ q.torn = 1
    /\ Len(batches) = 1
    /\ batches[1].status = "resolved"
    /\ cache.data.v[1].batch = 1
    /\ q.weatherData[1].hourlyAt >= cache.timestamp

\* the DateTime of the current state
UtcNow == Utc(now, q.second)

\* C20 - after every rendered frame the sunPosition uniform is the sun
\* position of the current UTC minute, whatever the time between two
\* frames.
C20_SunPositionIsCurrent ==
    /\ q.sunPosition.longitude = sunPosAt(UtcNow).longitude
    /\ q.sunPosition.latitude = sunPosAt(UtcNow).latitude

\* the minute of the UTC day of the current state
MinuteOfDay == UtcHour(now) * 60 + UtcMinute(now)

\* the longitude that sunPosAt returns for the current state
Longitude == sunPosAt(UtcNow).longitude

\* C21 - for every UTC instant the longitude returned by sunPosAt, and so
\* the longitude of the sunPosition uniform, lies in [-180, 180] degrees.
C21_LongitudeInRange ==
    /\ Longitude \in -720 .. 720
    /\ q.sunPosition.longitude \in -720 .. 720

\* a frame of 23:59 UTC, where the raw longitude is below -180
C21_Witness ==
    /\ MinuteOfDay = 1439
    /\ q.utcTime.hour = 23 /\ q.utcTime.minute = 59
    /\ RawLongitude(Hours(UtcNow)) < -720

\* C22 - at UTC midnight sunPosAt returns the longitude 0, at UTC noon a
\* longitude on the -180/180 boundary.
C22_MidnightZeroNoonBoundary ==
    /\ (q.utcTime.hour = 0 /\ q.utcTime.minute = 0)
          => q.sunPosition.longitude = 0
    /\ (q.utcTime.hour = 12 /\ q.utcTime.minute = 0)
          => q.sunPosition.longitude \in {-720, 720}

\* C22, amended - at UTC midnight sunPosAt returns the longitude -180, on
\* the -180/180 boundary, and at UTC noon the longitude 0.
C22_MidnightBoundaryNoonZero ==
    /\ (q.utcTime.hour = 0 /\ q.utcTime.minute = 0)
          => q.sunPosition.longitude = -720
    /\ (q.utcTime.hour = 12 /\ q.utcTime.minute = 0)
          => q.sunPosition.longitude = 0

\* the sun position was computed in a frame of 00:00 UTC of the new year
C22_Witness ==
    /\ now >= LastDay + 1440
    /\ q.utcTime.hour = 0 /\ q.utcTime.minute = 0

\* C23 - the longitude is 180 - 15 h degrees for 0 < h < 24 and -180 at
\* h = 0, with h = hour + minute / 60: from one minute to the next it
\* decreases by a quarter of a degree, except for the one wrap of the day
\* after 00:00 UTC, and the second of the minute does not change it.
C23_LongitudeFormula ==
    [][ /\ Longitude = (IF MinuteOfDay = 0 THEN -720 ELSE 720 - MinuteOfDay)
        /\ Longitude' =
              (IF MinuteOfDay' = 0 THEN -720 ELSE 720 - MinuteOfDay')
        /\ now' = now + 1 =>
              /\ Longitude' =
                    (IF MinuteOfDay = 0 THEN Longitude + 1439
                     ELSE Longitude - 1)
              /\ q'.sunPosition.longitude = Longitude'
        /\ now' = now => Longitude' = Longitude ]_vars

\* the frame of 00:01 UTC, second 59, after the wrap
C23_Witness ==
    /\ MinuteOfDay = 1
    /\ q.second = 59
    /\ q.utcTime = [hour |-> 0, minute |-> 1, second |-> 59]

\* C24 - the longitude has the period 24 hours: sunPosAt returns the same
\* longitude for an instant and for the instant 24 hours later, also from
\* 31 December to 1 January.
C24_LongitudePeriodic ==
    [][ /\ Longitude = sunPosAt(Utc(now + 1440, q.second)).longitude
        /\ now' = now + 1440 =>
              /\ sunPosAt(Utc(now', q.second)).longitude = Longitude
              /\ q.sunPosition.longitude = Longitude
                    => q'.sunPosition.longitude = Longitude' ]_vars

\* a frame of 1 January, 24 hours after the first frame of 31 December
C24_Witness ==
    /\ now = LastDay + 1440 + 15
    /\ UtcOrdinal(now) = 1
    /\ q.utcTime.hour = 0 /\ q.utcTime.minute = 15
    /\ q.sunPosition.longitude = Longitude

\* C25 - on every day of the year, 1 to 366, the latitude returned by
\* sunPosAt, and so the latitude of the sunPosition uniform, lies in
\* [-23.45, 23.45] degrees.
C25_LatitudeInRange ==
    /\ sunPosAt(UtcNow).latitude \in -2345 .. 2345
    /\ q.sunPosition.latitude \in -2345 .. 2345

\* a frame of the day of the greatest latitude
C25_Witness ==
    /\ q.lastRenderedMinute = UtcMinute(now)
    /\ q.second = 59
    /\ q.sunPosition.latitude = 2345

\* a step in which a frame callback runs after an earlier frame
FrameRuns == q.running /\ (now' # now \/ q'.second # q.second)

\* C26 - when one of the four textures fails to load, the failure is
\* logged, no shader material is installed, the render loop is not started
\* and the sun position is never computed.
C26_TextureFailureLeavesGlobeBare ==
    (\E x \in Textures : q.textures[x] = "failed") =>
        /\ q.logged
        /\ ~q.material
        /\ ~q.running
        /\ q.lastRenderedMinute = NoFrame.lastRenderedMinute
        /\ q.sunPosition = NoFrame.sunPosition
        /\ q.utcTime = NoFrame.utcTime

\* the cloud image fails after the three other textures have loaded
C26_Witness ==
    /\ q.textures["clouds"] = "failed"
    /\ \A x \in Textures \ {"clouds"} : q.textures[x] = "loaded"

\* C27 - after the teardown of the component no frame callback runs: the
\* loop is not started, the time of the last frame, the sun position and
\* the minute of its last update stay as they are, and nothing is rendered
\* with the disposed renderer.
C27_TeardownStopsLoop ==
    [][ ~q.mounted =>
          /\ ~q'.rendersDisposed
          /\ q'.running = q.running
          /\ now' = now /\ q'.second = q.second
          /\ q'.sunPosition = q.sunPosition
          /\ q'.lastRenderedMinute = q.lastRenderedMinute ]_vars

\* C28 - from every rendered frame to the next, the rotation of the cloud
\* mesh about the Y axis advances.
C28_CloudsRotate ==
    [][ FrameRuns => q'.cloudsRotationY # q.cloudsRotationY ]_vars

\* C29 - the colour of a fragment of the globe is mix(night, day,
\* smoothstep(-0.1, 0.1, intensity)), where intensity is the dot product of
\* the unit normal and the unit sun direction rotated by globeRotation; the
\* blend factor is 0 (the night texel) for intensity <= -0.1, 1 (the day
\* texel) for intensity >= 0.1, and does not decrease with the intensity
\* in between.
C29_DayNightBlend ==
    q.done =>
        /\ q.intensity =
              dot(normalize(q.vNormal), normalize(q.rotatedSunDirection))
        /\ q.intensity \in -1000 .. 1000
        /\ q.blendFactor \in 0 .. 1000
        /\ q.intensity <= -100 =>
              q.blendFactor = 0 /\ q.gl_FragColor = q.nightColor
        /\ q.intensity >= 100 =>
              q.blendFactor = 1000 /\ q.gl_FragColor = q.dayColor
        /\ \A k \in 1..3 :
              q.gl_FragColor[k] =
                  (q.nightColor[k] * (1000 - q.blendFactor)
                     + q.dayColor[k] * q.blendFactor) \div 1000
        /\ \A x \in -150 .. 150 :
              /\ x >= q.intensity =>
                    smoothstep(-100, 100, x) >= q.blendFactor
              /\ x <= q.intensity =>
                    smoothstep(-100, 100, x) <= q.blendFactor

\* a fragment on the terminator, between night and day
C29_Witness ==
    /\ q.done
    /\ q.intensity > -100 /\ q.intensity < 100
    /\ q.blendFactor > 0 /\ q.blendFactor < 1000
    /\ q.gl_FragColor # q.nightColor /\ q.gl_FragColor # q.dayColor

\* this step is the success of batch b
Succeeds(b) == /\ b \in 1..Len(batches)
               /\ batches[b].status = "pending"
               /\ batches'[b].status = "resolved"

\* C30 - the in-flight marker goes Idle -> Fetching -> Idle: it is set
\* exactly while a fetch batch is pending, and the step in which a batch
\* succeeds clears it together with the store of the new records and of the
\* new timestamp; records and timestamp change in no other step.
C30_MarkerStateMachine ==
    [][ /\ (cache.fetchPromise # 0) <=> (PendingBatches # {})
        /\ (cache'.fetchPromise # 0) <=> (PendingBatches' # {})
        /\ cache'.fetchPromise # cache.fetchPromise =>
              cache.fetchPromise = 0 \/ cache'.fetchPromise = 0
        /\ \A b \in 1..Len(batches) :
              Succeeds(b) =>
                 /\ cache.fetchPromise = b
                 /\ cache'.fetchPromise = 0
                 /\ ~cache'.data.null
                 /\ \A i \in 1..NLoc : cache'.data.v[i].batch = b
                 /\ cache'.timestamp = now
                 /\ now' = now
        /\ (cache'.data # cache.data \/ cache'.timestamp # cache.timestamp)
              => \E b \in 1..Len(batches) : Succeeds(b) ]_vars

\* the second batch has succeeded: the marker is clear and the cache holds
\* its records and its time
C30_Witness ==
    /\ Len(batches) = 2
    /\ batches[2].status = "resolved"
    /\ cache.fetchPromise = 0
    /\ \A i \in 1..NLoc : cache.data.v[i].batch = 2
    /\ cache.timestamp >= CACHE_DURATION

\* C31 - a failed fetch batch leaves the records and the timestamp of the
\* cache as they were before the batch started: neither the start of a
\* batch, nor a step while it is pending, nor its failure changes them; the
\* failure clears the marker and serves the kept records to none of the
\* calls that waited.
C31_FailureLeavesCache ==
    [][ /\ StartsBatch =>
              /\ cache'.data = cache.data
              /\ cache'.timestamp = cache.timestamp
        /\ \A b \in PendingBatches :
              ~Succeeds(b) =>
                 /\ cache'.data = cache.data
                 /\ cache'.timestamp = cache.timestamp
        /\ \A b \in 1..Len(batches) :
              Fails(b) =>
                 /\ cache.fetchPromise = b
                 /\ cache' = [cache EXCEPT !.fetchPromise = 0]
                 /\ \A c \in Waiting(b) :
                       /\ callers'[c].out = "rejected"
                       /\ callers'[c].data.null ]_vars

\* the second batch has failed while the cache held the records of the
\* first, and a call that waited for it was rejected
C31_Witness ==
    /\ Len(batches) = 2
    /\ batches[1].status = "resolved"
    /\ batches[2].status = "rejected"
    /\ ~cache.data.null
    /\ \A i \in 1..NLoc : cache.data.v[i].batch = 1
    /\ cache.fetchPromise = 0
    /\ \E c \in 1..NCallers : callers[c].out = "rejected"

\* C32 - no call is served records that are 15 minutes old or older: a
\* call that resolves without waiting gets the cached set, whose age at the
\* call is below 15 minutes; a call made with no data or with data of 15
\* minutes or more waits; and a call that waited resolves with the set
\* stored in that same step.
C32_NeverServedStale ==
    [][ \A c \in 1..NCallers :
          /\ CallStep(c) =>
                /\ callers'[c].out = "resolved" =>
                      /\ ~cache.data.null
                      /\ now - cache.timestamp < CACHE_DURATION
                      /\ callers'[c].data = cache.data
                /\ (cache.data.null \/ now - cache.timestamp >= CACHE_DURATION)
                      => /\ callers'[c].st = "waiting"
                         /\ callers'[c].out = "none"
          /\ (callers[c].st = "waiting" /\ callers'[c].out = "resolved") =>
                /\ callers'[c].data = cache'.data
                /\ cache'.timestamp = now' ]_vars

\* a call waits for the second batch while the cache holds records that are
\* 15 minutes old or older
C32_Witness ==
    /\ ~cache.data.null
    /\ now - cache.timestamp >= CACHE_DURATION
    /\ cache.fetchPromise = 2
    /\ \E c \in 1..NCallers : callers[c].st = "waiting"

\* the runs of hook function fn that waited and have ended in this step
EndedRuns(fn) ==
    {c \in 1..NCallers :
        /\ callers[c].st = "waiting"
        /\ callers[c].fn = fn
        /\ callers'[c].st # "waiting"}

\* C33 - results are applied in tick order: while the page is mounted, the
\* result shown for a location is never replaced by the result of an
\* earlier tick of the same cycle, and when runs of several ticks of a
\* cycle end in one step, the result shown afterwards is not older than
\* any of them that was applied.
C33_TickOrder ==
    [][ (q.mounted /\ q'.mounted) =>
          \A i \in 1..NLoc :
             /\ q'.weatherData[i].sunTick >= q.weatherData[i].sunTick
             /\ q'.weatherData[i].hourlyTick >= q.weatherData[i].hourlyTick
             /\ q'.weatherData[i].sunAt # q.weatherData[i].sunAt =>
                   \A c \in EndedRuns("fetchSunData") :
                      q'.weatherData[i].sunTick >= callers[c].tick
             /\ q'.weatherData[i].hourlyAt # q.weatherData[i].hourlyAt =>
                   \A c \in EndedRuns("fetchHourlyData") :
                      q'.weatherData[i].hourlyTick >= callers[c].tick ]_vars

\* the runs of two minute ticks wait for the same fetch
C33_Witness ==
    /\ q.mounted
    /\ callers[1].st = "waiting" /\ callers[1].fn = "fetchSunData"
    /\ callers[2].st = "waiting" /\ callers[2].fn = "fetchSunData"
    /\ callers[1].tick < callers[2].tick
    /\ callers[1].batch = callers[2].batch

\* a tick of the given kinds fires in this step
TickFires(kinds) == q'.tick # q.tick /\ q'.tick.kind \in kinds

\* C34 - the two cycles leave each other's results alone: while the page
\* is mounted, a step in which no hourly tick fires and no run of
\* fetchHourlyData ends leaves current and precipitation of every location
\* as they are, whatever the minute cycle does in it, and a step in which
\* no minute tick fires and no run of fetchSunData ends leaves the sun
\* field as it is, whatever the hourly cycle does in it.
C34_CyclesIndependent ==
    [][ (q.mounted /\ q'.mounted) =>
          \A i \in 1..NLoc :
             /\ (~TickFires({"hourly"})
                   /\ EndedRuns("fetchHourlyData") = {}) =>
                   /\ q'.weatherData[i].current = q.weatherData[i].current
                   /\ q'.weatherData[i].precipitation =
                         q.weatherData[i].precipitation
                   /\ q'.weatherData[i].hourlyAt = q.weatherData[i].hourlyAt
             /\ (~TickFires({"minute"})
                   /\ EndedRuns("fetchSunData") = {}) =>
                   /\ q'.weatherData[i].sun = q.weatherData[i].sun
                   /\ q'.weatherData[i].sunAt = q.weatherData[i].sunAt ]_vars

\* an hourly tick of the timer has updated the weather after a minute tick
\* had updated the sun events, and both results are shown
C34_Witness ==
    /\ q.mounted
    /\ q.weatherData[1].hourlyTick > 0
    /\ q.weatherData[1].sunTick > 0
    /\ q.weatherData[1].hourlyAt >= q.weatherData[1].sunAt
    /\ q.weatherData[1].sun.out # "none"
    /\ q.weatherData[1].current.out # "none"

(***************************************************************************)
(* Progress of the coordinator.  The network is fair: a request on the    *)
(* wire is eventually answered, or fails.  Nothing else is assumed: calls  *)
(* may stop coming and time may stop passing.                              *)
(***************************************************************************)
EveryRequestSettles ==
    \A b \in 1..MaxBatches, i \in 1..NLoc :
       WF_vars(\E resp \in Responses : Respond(b, i, resp))

SpecLive == Init /\ [][Next]_vars /\ EveryRequestSettles

\* C35 - progress: when every HTTP request eventually settles, a call of
\* getSharedWeatherData that waits is eventually resolved or rejected, and
\* an in-flight marker that is set eventually returns to null.
C35_EveryCallSettles ==
    /\ \A c \in 1..NCallers :
          (callers[c].st = "waiting") ~> (callers[c].st = "done")
    /\ (cache.fetchPromise # 0) ~> (cache.fetchPromise = 0)

\* a call that waited for a failed batch has rejected, a call that waited
\* for a later batch has resolved, and the marker is null again
C35_Witness ==
    /\ cache.fetchPromise = 0
    /\ \E c, d \in 1..NCallers :
          /\ callers[c].st = "done" /\ callers[c].out = "rejected"
          /\ callers[c].batch = 1
          /\ callers[d].st = "done" /\ callers[d].out = "resolved"
          /\ callers[d].batch = 2

(***************************************************************************)
(* The sun queries over a day.  Time is in minutes since the local         *)
(* midnight of day 0; the endpoint answers with the forecast of the local  *)
(* date of the request and of the day after (timezone=auto,                *)
(* forecast_days=2): sunrise and sunset of both days and 48 hourly         *)
(* samples, here of a clear sky.  A run starts shortly before a sunrise, a *)
(* sunset or a midnight and lasts MaxSMinutes minutes.                     *)
(***************************************************************************)
DayMinutes == 24 * 60
SunriseOfDay == 6 * 60
SunsetOfDay == 18 * 60
HoursOfForecast == 2 * 24

\* the local date at minute t
DateOf(t) == t \div DayMinutes

\* the body of a forecast requested on local date d
SunForecastOn(d) ==
    Weather(Daily(Arr(<<d * DayMinutes + SunriseOfDay,
                        (d + 1) * DayMinutes + SunriseOfDay>>),
                  Arr(<<d * DayMinutes + SunsetOfDay,
                        (d + 1) * DayMinutes + SunsetOfDay>>),
                  Arr(<<DailyMax(d), DailyMax(d + 1)>>)),
            Hourly(Arr([h \in 1..HoursOfForecast |->
                           d * DayMinutes + 60 * (h - 1)]),
                   Arr([h \in 1..HoursOfForecast |-> 200]),
                   Arr([h \in 1..HoursOfForecast |-> 200]),
                   Arr([h \in 1..HoursOfForecast |-> 0]),
                   Arr([h \in 1..HoursOfForecast |-> 0])))

\* request i of batch b is answered now, with the forecast of today
RespondSunForecast(b, i) ==
    Respond(b, i, [Http200 EXCEPT !.body = SunForecastOn(DateOf(now))])

SunStarts == {SunriseOfDay - 3, SunsetOfDay - 3, DayMinutes - 3}

InitS ==
    /\ now \in SunStarts
    /\ cache = [data |-> Null, timestamp |-> 0, fetchPromise |-> 0]
    /\ batches = <<>>
    /\ callers = [c \in 1..NCallers |-> Idle]
    /\ q = [pc |-> "sun", from |-> now]

\* a minute passes
TickS ==
    /\ now < q.from + MaxSMinutes
    /\ now' = now + 1
    /\ UNCHANGED <<cache, batches, callers, q>>

NextS ==
    \/ NextSunEvent(1)
    \/ CurrentWeather(1)
    \/ \E b \in 1..MaxBatches, i \in 1..NLoc : RespondSunForecast(b, i)
    \/ TickS

SpecS == InitS /\ [][NextS]_vars

\* caller c ends a call of fn in this step
Ends(c, fn) ==
    /\ callers'[c] # callers[c]
    /\ callers'[c].st = "done"
    /\ callers'[c].fn = fn
    /\ callers'[c].out = "resolved"

\* C36 - the day/night flag and the next sun event agree: when
\* getCurrentWeatherForLocation ends with the icon of a clear sky, that icon
\* is the one of the day exactly when getNextSunEventForLocation, run at
\* the same instant on the same records, reports the sunset as the next
\* event.
C36_DayFlagAgrees ==
    [][ \A c \in 1..NCallers :
          (Ends(c, "getCurrentWeatherForLocation")
             /\ callers'[c].res.icon \in {"sun", "moon"}) =>
             ( callers'[c].res.icon = "sun"
                 <=> getNextSunEventForLocation(
                        callers'[c].data.v, callers'[c].arg, now').icon
                     = "moon" ) ]_vars

\* C37 - the remaining time is never negative: a call of
\* getNextSunEventForLocation that found its location has returned a
\* duration of more than zero minutes, also when the records it was served
\* are of the day before.
C37_NextEventInFuture ==
    \A c \in 1..NCallers :
       (callers[c].st = "done"
          /\ callers[c].fn = "getNextSunEventForLocation"
          /\ callers[c].out = "resolved"
          /\ callers[c].res.icon # "question") =>
          /\ callers[c].res.time.t = "h:mm"
          /\ callers[c].res.time.n > 0

\* two minutes after midnight the query was served the records fetched on
\* the day before and told the time until the sunrise of the new day
C37_Witness ==
    /\ now = DayMinutes + 2
    /\ cache.timestamp < DayMinutes
    /\ ~cache.data.null
    /\ callers[1].st = "done"
    /\ callers[1].fn = "getNextSunEventForLocation"
    /\ callers[1].data = cache.data
    /\ callers[1].res.icon = "sunrise"
    /\ callers[1].res.time = HMM(5, 58)

(***************************************************************************)
(* The lookup of the current hourly sample in the two revisions of         *)
(* getCurrentWeatherForLocation.  A timestamp text "yyyy-MM-ddTHH:mm" of   *)
(* the location's zone is the minute it names; the hourly list ranges over *)
(* the short sequences of HourStamps, in any order and with repetitions.   *)
(***************************************************************************)
\* the current time written out with its minutes: toFormat("...HH:mm")
CurrentHourISOFull(t) == t

\* nowInLocation.toFormat("yyyy-MM-dd'T'HH':00'"): the text of the start of
\* the current hour
CurrentHourISO(t) == t - (t % 60)

\* weather.hourly.time.indexOf(text): the first index (0-based), or -1
IndexOf(times, x) ==
    LET hit == {i \in 1..Len(times.v) : times.v[i] = x}
    IN  IF hit = {} THEN -1
        ELSE (CHOOSE i \in hit : \A j \in hit : i <= j) - 1

\* the older revision: the exact match of the text of the current hour
CurrentIndexOlder(times, t) == IndexOf(times, CurrentHourISO(t))

HourStamps == {0, 60, 90, 120}
HourLists == UNION {[1..n -> HourStamps] : n \in 0..3}
LookupTimes == {0, 30, 60, 61, 95, 119, 120, 150}

InitR ==
    /\ now \in LookupTimes
    /\ cache = [data |-> Null, timestamp |-> 0, fetchPromise |-> 0]
    /\ batches = <<>>
    /\ callers = [c \in 1..NCallers |-> Idle]
    /\ q \in {[pc |-> "lookup", times |-> Arr(l), ran |-> {}, newer |-> 0,
               older |-> 0] : l \in HourLists}

\* the backward scan of the newer revision
LookupNewer ==
    /\ "newer" \notin q.ran
    /\ q' = [q EXCEPT !.ran = @ \cup {"newer"},
                      !.newer = CurrentIndex(q.times, DateTimeNow(now))]
    /\ UNCHANGED <<now, cache, batches, callers>>

\* the exact match of the older revision
LookupOlder ==
    /\ "older" \notin q.ran
    /\ q' = [q EXCEPT !.ran = @ \cup {"older"},
                      !.older = CurrentIndexOlder(q.times, now)]
    /\ UNCHANGED <<now, cache, batches, callers>>

NextR == LookupNewer \/ LookupOlder

SpecR == InitR /\ [][NextR]_vars

\* the list is in ascending order, on whole hours
AscendingHours(times) ==
    /\ \A i \in 1..Len(times.v) : times.v[i] % 60 = 0
    /\ \A i, j \in 1..Len(times.v) : i < j => times.v[i] < times.v[j]

\* the list holds the timestamp of the hour that minute t lies in
HoldsHourOf(times, t) ==
    \E i \in 1..Len(times.v) : times.v[i] = t - (t % 60)

\* C38 - the two revisions of the lookup agree: on a list that is in
\* ascending order on whole hours and holds the timestamp of the current
\* hour, the backward scan for the last sample <= now and the exact match
\* of the current hour select the same index; so on such lists they differ
\* only when the current hour is absent.
C38_LookupsAgree ==
    (q.ran = {"newer", "older"} /\ AscendingHours(q.times)) =>
       /\ HoldsHourOf(q.times, now) => q.newer = q.older
       /\ q.newer # q.older => ~HoldsHourOf(q.times, now)

\* both lookups have picked the second of three samples at a minute inside
\* its hour
C38_Witness ==
    /\ q.times = Arr(<<0, 60, 120>>)
    /\ now = 95
    /\ q.ran = {"newer", "older"}
    /\ q.newer = 1
    /\ q.older = 1

(***************************************************************************)
(* The first hourly tick for every mount time.  The page is mounted at any *)
(* minute and second of the first hour, at one of MountMillis milliseconds *)
(* of the second; the timeout of the hourly effect fires when it is due or *)
(* a millisecond late.                                                     *)
(***************************************************************************)
HourMs == 60 * 60 * 1000
MountMillis == {0, 1, 500, 999}
FiringLateness == {0, 1}

InitU ==
    /\ now \in {WallClock(mi, s, ms) :
                   mi \in 0..59, s \in 0..59, ms \in MountMillis}
    /\ cache = [data |-> Null, timestamp |-> 0, fetchPromise |-> 0]
    /\ batches = <<>>
    /\ callers = [c \in 1..NCallers |-> Idle]
    /\ q = scheduleHourly(Unmounted, now)

\* time passes until the timeout of the hourly effect runs
AdvanceU ==
    /\ \E t \in q.timers, late \in FiringLateness :
          /\ t.kind = "hour"
          /\ t.due > now
          /\ now' = t.due + late
    /\ UNCHANGED <<cache, batches, callers, q>>

NextU == AdvanceU \/ FireHourTimeout

SpecU == InitU /\ [][NextU]_vars

\* the first hour boundary after time t
NextHourBoundary(t) == (t \div HourMs + 1) * HourMs

\* C39 - the initial delay of the hourly tick: the timeout set at the mount
\* is due more than 0 and at most 3600000 ms after it, at the next hour
\* boundary or less than a second after it and never before it; the delay
\* exceeds the one of the earlier revision by exactly the millisecond of
\* the mount time; and the first hourly tick of the timer does not run
\* before the boundary.
C39_InitialHourlyDelay ==
    /\ \A t \in q.timers :
          t.kind = "hour" =>
             /\ t.due - t.set > 0
             /\ t.due - t.set <= 3600000
             /\ t.due >= NextHourBoundary(t.set)
             /\ t.due < NextHourBoundary(t.set) + 1000
             /\ t.due - t.set = msUntilNextHour(t.set)
             /\ msUntilNextHour(t.set) - msUntilNextHourOlder(t.set)
                   = Millisecond(t.set)
             /\ t.set + msUntilNextHourOlder(t.set) = NextHourBoundary(t.set)
    /\ \A t \in q.timers : t.kind = "interval" => t.set >= HourMs

\* mounted at 59:59.999, the timeout has run 999 ms after the hour and has
\* set the interval
C39_Witness ==
    /\ now = HourMs + 999
    /\ q.tick = [kind |-> "hourly", at |-> HourMs + 999]
    /\ \E t \in q.timers : t.kind = "interval" /\ t.set = HourMs + 999

==========================================================================
